---- MODULE Spec2Model ----
(***************************************************************************)
(* Model of the aitovideo backend: the SQLite store (users, videos,        *)
(* video_progress), the intake route with its metadata resolution, the     *)
(* background alternative finder, the delete route and the progress        *)
(* routes with the canonical-id resolver.                                  *)
(***************************************************************************)
EXTENDS Integers, Sequences, FiniteSets, TLC

\* ------------------------------------------------------------------------
\* Bounds of the model
\* ------------------------------------------------------------------------

\* number of intake requests that can be issued in one behaviour
MaxReq == 2

\* largest submitted position, in half seconds (3 = 1.5 s)
MaxHalf == 3

\* MAX_CACHE_ENTRIES of the thumbnail proxy, scaled down from 500
MAX_CACHE_ENTRIES == 2

\* the ticks the clock of the caches makes
MaxTime == 2

\* CACHE_TTL_MS, one hour, in ticks
CACHE_TTL == 2

\* the seconds the elapsed timer of the player counts up to
MaxElapsed == 12

MIN_RESUME_SECONDS == 10

\* largest row id the videos table hands out in one behaviour
MaxVideoId == 4

\* the number of rows the delete route removes in one run
MaxDel == 1

\* ------------------------------------------------------------------------
\* Values
\* ------------------------------------------------------------------------

\* SQL NULL in an INTEGER column (row ids start at 1)
NoId == 0

\* "progress: null" in a response, and "no position recorded" in the history
NoPos == -1

\* Telegram ids of the callers; NoTg is a request without req.telegramUser
NoTg == 0

TelegramIds == {101, 102}

ReqIds == 1..MaxReq

VideoIds == 1..MaxVideoId

\* a position_seconds that is not a number (a string, or none in the body)
NotANumber == -100

\* submitted position_seconds, in half seconds; -1 is a negative position
HalfPositions == ((-1)..MaxHalf) \cup {NotANumber}

\* parsed links (platform, externalId) the bot can submit
YouTubeLink == [platform |-> "youtube", externalId |-> "y1"]
RutubeLink == [platform |-> "rutube", externalId |-> "r1"]
Links == {YouTubeLink, RutubeLink}

VARIABLES
  users,        \* users table: telegram_id -> id
  videos,       \* videos table: id -> row
  nextVideoId,  \* AUTOINCREMENT counter of the videos table
  progress,     \* video_progress table: <<user_id, video_id>> -> position_seconds
  resp,         \* the response of the last request answered
  lastSave,     \* history: <<user_id, root id>> -> the last save to the family: the
                \* position submitted (in half seconds) and the member it named
  orphans,      \* history: ids of rows whose root was deleted
  deletes,      \* the number of rows deleted through the delete route
  req,          \* the intake requests: where each stands and what it was answered
  finder,       \* the finder run each intake request started
  mirrors,      \* history: the rows the finder runs inserted, each with its root
  canon,        \* the last call of getCanonicalId made on its own: its argument and result
  rs,           \* one run of a resolver chain: its platform, the answers so far, its result
  verified,     \* the last call of verifyTelegramWebAppData: its initData and its result
  parsedUrl,    \* the last call of parseVideoUrl: its url and its result
  cache,        \* the in-memory caches of the proxy and stream routes, and the clock
  player        \* the player component of the mini app: one opened video

\* the state outside the database, the intake and the resolver chains
auxVars == <<verified, parsedUrl, cache, player>>

\* the same without the record of the authentication, which the request
\* handlers leave to the middleware in front of them
frameVars == <<parsedUrl, cache, player>>

vars == <<users, videos, nextVideoId, progress, resp, lastSave, orphans, deletes,
          req, finder, mirrors, canon, rs, auxVars>>

dbVars == <<users, videos, nextVideoId, progress, resp, lastSave, orphans, deletes,
            req, finder, mirrors, canon, auxVars>>

\* ------------------------------------------------------------------------
\* Storage layer
\* ------------------------------------------------------------------------

\* UserModel.findByTelegramId: the user's id, NoId when there is no such row
FindByTelegramId(tg) == IF tg \in DOMAIN users THEN users[tg] ELSE NoId

\* UserModel.upsert: INSERT ... ON CONFLICT(telegram_id) DO UPDATE; users are
\* never deleted, so the AUTOINCREMENT id of a new row is the row count + 1
Upsert(tg) ==
  IF tg \in DOMAIN users THEN users
  ELSE [t \in DOMAIN users \cup {tg} |->
          IF t = tg THEN Cardinality(DOMAIN users) + 1 ELSE users[t]]

\* VideoModel.exists with platform and external_id bound the wrong way round
VideoModelExists_SwappedColumns(vs, userId, platform, externalId) ==
  \E id \in DOMAIN vs : /\ vs[id].user_id = userId
                        /\ vs[id].platform = externalId
                        /\ vs[id].external_id = platform

\* VideoModel.exists
VideoModelExists(vs, userId, platform, externalId) ==
  \E id \in DOMAIN vs : /\ vs[id].user_id = userId
                        /\ vs[id].platform = platform
                        /\ vs[id].external_id = externalId

\* the number of rows of (user_id, platform, external_id)
RowCount(vs, userId, platform, externalId) ==
  Cardinality({id \in DOMAIN vs : /\ vs[id].user_id = userId
                                  /\ vs[id].platform = platform
                                  /\ vs[id].external_id = externalId})

\* the row of (user_id, platform, external_id); UNIQUE makes it the only one
RowIdOf(vs, userId, platform, externalId) ==
  CHOOSE id \in DOMAIN vs : /\ vs[id].user_id = userId
                            /\ vs[id].platform = platform
                            /\ vs[id].external_id = externalId

\* VideoModel.create over a table without the UNIQUE constraint: every call
\* inserts a row
VideoModelCreate_NoUnique(vs, nid, userId, platform, externalId, title, channel, parentId) ==
  << [i \in DOMAIN vs \cup {nid} |->
        IF i = nid
        THEN [user_id |-> userId, platform |-> platform,
              external_id |-> externalId, title |-> title,
              channel_name |-> channel, parent_id |-> NoId,
              is_watched |-> FALSE]
        ELSE vs[i]], nid >>

\* VideoModel.create: the INSERT names eight columns and parent_id is not one
\* of them, so a new row takes the column default NULL whatever parentId the
\* caller passes; on conflict only the four metadata columns are replaced.
\* Yields <<table, id of the row returned>>.
VideoModelCreate(vs, nid, userId, platform, externalId, title, channel, parentId) ==
  IF VideoModelExists(vs, userId, platform, externalId)
  THEN LET id == RowIdOf(vs, userId, platform, externalId)
       IN  << [vs EXCEPT ![id].title = title, ![id].channel_name = channel], id >>
  ELSE << [i \in DOMAIN vs \cup {nid} |->
             IF i = nid
             THEN [user_id |-> userId, platform |-> platform,
                   external_id |-> externalId, title |-> title,
                   channel_name |-> channel, parent_id |-> NoId,
              is_watched |-> FALSE]
             ELSE vs[i]], nid >>

\* VideoModel.delete over a table whose parent_id has no ON DELETE SET NULL:
\* the row goes and the rows naming it as parent keep its id
VideoModelDelete_NoSetNull(vs, id, userId) ==
  IF id \in DOMAIN vs /\ vs[id].user_id = userId
  THEN [i \in DOMAIN vs \ {id} |-> vs[i]]
  ELSE vs

\* VideoModel.delete over a table whose parent_id is ON DELETE CASCADE: the
\* rows naming the deleted row as parent go with it
VideoModelDelete_Cascade(vs, id, userId) ==
  IF id \in DOMAIN vs /\ vs[id].user_id = userId
  THEN [i \in {j \in DOMAIN vs : j # id /\ vs[j].parent_id # id} |-> vs[i]]
  ELSE vs

\* VideoModel.delete with the foreign keys of initTables: the row goes, rows
\* naming it as parent get parent_id NULL (ON DELETE SET NULL)
VideoModelDelete(vs, id, userId) ==
  IF id \in DOMAIN vs /\ vs[id].user_id = userId
  THEN [i \in DOMAIN vs \ {id} |->
          IF vs[i].parent_id = id THEN [vs[i] EXCEPT !.parent_id = NoId] ELSE vs[i]]
  ELSE vs

\* video_progress.video_id REFERENCES videos(id) ON DELETE CASCADE
CascadeProgress(pr, id) ==
  [k \in {q \in DOMAIN pr : q[2] # id} |-> pr[k]]

\* ------------------------------------------------------------------------
\* Canonical-progress resolver
\* ------------------------------------------------------------------------

\* getCanonicalId without the guard on a NULL parent_id: the parent_id column
\* is returned as it is
CanonicalIdIn_NoGuard(vs, videoId) ==
  IF videoId \notin DOMAIN vs THEN videoId ELSE vs[videoId].parent_id

\* getCanonicalId without the lookup of the parent row: a parent that is gone
\* is still returned
CanonicalIdIn_NoParentCheck(vs, videoId) ==
  IF videoId \notin DOMAIN vs THEN videoId
  ELSE IF vs[videoId].parent_id = NoId THEN videoId
  ELSE vs[videoId].parent_id

\* getCanonicalId over a videos table
CanonicalIdIn(vs, videoId) ==
  IF videoId \notin DOMAIN vs THEN videoId            \* row undefined
  ELSE IF vs[videoId].parent_id = NoId THEN videoId   \* !row.parent_id
  ELSE IF vs[videoId].parent_id \notin DOMAIN vs THEN videoId  \* !parentExists
  ELSE vs[videoId].parent_id

\* no resolution at all: every id is its own canonical id
getCanonicalId_Own(videoId) == videoId

getCanonicalId(videoId) == CanonicalIdIn(videos, videoId)

\* Math.floor of a non-negative position given in half seconds
Floor(h) == h \div 2

\* the read without the user: SELECT * FROM video_progress WHERE video_id = ?
ReadProgress_AnyUser(tg, videoId) ==
  LET uid == FindByTelegramId(tg)
      keys == {k \in DOMAIN progress : k[2] = getCanonicalId(videoId)}
  IN  IF uid = NoId \/ keys = {} THEN NoPos
      ELSE progress[CHOOSE k \in keys : \A q \in keys : k[1] <= q[1]]

\* what GET /progress/:video_id answers in the current state: the position,
\* NoPos for "progress: null"
ReadProgress(tg, videoId) ==
  LET uid == FindByTelegramId(tg)
      key == <<uid, getCanonicalId(videoId)>>
  IN  IF uid = NoId THEN NoPos
      ELSE IF key \in DOMAIN progress THEN progress[key] ELSE NoPos


\* ------------------------------------------------------------------------
\* Strings: a string is a sequence of one-character strings.  A Cyrillic
\* letter is written as a token naming it ("cyr-VE" is the capital letter VE).
\* ------------------------------------------------------------------------

StartsWith(s, p) == Len(s) >= Len(p) /\ SubSeq(s, 1, Len(p)) = p

Includes(s, p) == \E i \in 1..(Len(s) - Len(p) + 1) : SubSeq(s, i, i + Len(p) - 1) = p

RECURSIVE TrimStart(_)
TrimStart(s) == IF s # <<>> /\ Head(s) = " " THEN TrimStart(Tail(s)) ELSE s

RECURSIVE TrimEnd(_)
TrimEnd(s) == IF s # <<>> /\ s[Len(s)] = " " THEN TrimEnd(SubSeq(s, 1, Len(s) - 1)) ELSE s

\* String.prototype.trim
Trim(s) == TrimEnd(TrimStart(s))

UpperCase == <<"A","B","C","D","E","F","G","H","I","J","K","L","M",
               "N","O","P","Q","R","S","T","U","V","W","X","Y","Z",
               "cyr-VE","cyr-KA">>
LowerCase == <<"a","b","c","d","e","f","g","h","i","j","k","l","m",
               "n","o","p","q","r","s","t","u","v","w","x","y","z",
               "cyr-ve","cyr-ka">>

LowerChar(c) ==
  IF \E i \in 1..Len(UpperCase) : UpperCase[i] = c
  THEN LowerCase[CHOOSE i \in 1..Len(UpperCase) : UpperCase[i] = c]
  ELSE c

\* String.prototype.toLowerCase
ToLowerCase(s) == [i \in 1..Len(s) |-> LowerChar(s[i])]

Entities == { [code |-> <<"&","a","m","p",";">>,     char |-> "&"],
              [code |-> <<"&","l","t",";">>,         char |-> "<"],
              [code |-> <<"&","g","t",";">>,         char |-> ">"],
              [code |-> <<"&","q","u","o","t",";">>, char |-> "\""],
              [code |-> <<"&","#","3","9",";">>,     char |-> "'"] }

\* decodeHtmlEntities: every occurrence of the five entities is replaced
RECURSIVE decodeHtmlEntities(_)
decodeHtmlEntities(text) ==
  IF text = <<>> THEN <<>>
  ELSE IF \E e \in Entities : StartsWith(text, e.code)
  THEN LET e == CHOOSE x \in Entities : StartsWith(text, x.code)
       IN  <<e.char>> \o decodeHtmlEntities(SubSeq(text, Len(e.code) + 1, Len(text)))
  ELSE <<Head(text)>> \o decodeHtmlEntities(Tail(text))

S_YouTubeVideo == <<"Y","o","u","T","u","b","e"," ","V","i","d","e","o">>
S_YouTube      == <<"Y","o","u","T","u","b","e">>
S_RutubeVideo  == <<"R","u","t","u","b","e"," ","V","i","d","e","o">>
S_UnknownVideo  == <<"U","n","k","n","o","w","n"," ","V","i","d","e","o">>
S_Unknown      == <<"U","n","k","n","o","w","n">>
S_Rutube       == <<"R","u","t","u","b","e">>
S_VKVideo      == <<"V","K"," ","V","i","d","e","o">>
S_VK           == <<"V","K">>
S_vkontakte    == <<"v","k","o","n","t","a","k","t","e">>
S_VKBar        == <<"V","K"," ","|">>
S_CyrVKBar     == <<"cyr-VE","cyr-KA"," ","|">>
\* the two Cyrillic spellings of the brand name (capital or small KA)
S_CyrBrandCap   == <<"cyr-VE","cyr-KA","cyr-o","cyr-n","cyr-t","cyr-a","cyr-k","cyr-t","cyr-e">>
S_CyrBrandSmall == <<"cyr-VE","cyr-ka","cyr-o","cyr-n","cyr-t","cyr-a","cyr-k","cyr-t","cyr-e">>


\* ------------------------------------------------------------------------
\* Upstream responses and the per-platform resolver chains
\* ------------------------------------------------------------------------

\* duration: null
NoDuration == -1

\* INVIDIOUS_INSTANCES.length
InvidiousInstances == 5

\* an optional string member of a JSON body, or of a page's meta tags
None == [some |-> FALSE, s |-> <<>>]
Some(str) == [some |-> TRUE, s |-> str]

S_Song      == <<"S","o","n","g">>
S_SongPad   == <<" ","S","o","n","g"," ">>
S_Blank     == <<" ">>
S_Chan      == <<"C","h","a","n">>
S_AmpTitle  == <<"A","&","a","m","p",";","B">>
S_VKBarX    == <<"V","K"," ","|"," ","x">>
S_VKontakte == <<"V","K","o","n","t","a","k","t","e">>

\* What one network call can come back with.  net: "reject" (the fetch
\* rejects: network error, or the AbortSignal timeout fired), "status"
\* (a non-2xx status), "badjson" (the body does not parse), "null" (the
\* body parses to JSON null), "ok" (a 2xx answer carrying the members below).
FailedNets == {"reject", "status", "badjson", "null"}

Failure(net) == [net |-> net, title |-> None, author |-> None, thumb |-> FALSE,
                 error |-> FALSE, duration |-> NoDuration]

Failures == {Failure(n) : n \in FailedNets}

Answers(titles, authors, thumbs, errors, durations) ==
  [net : {"ok"}, title : titles, author : authors, thumb : thumbs,
   error : errors, duration : durations]

OembedTitles == {None, Some(<<>>), Some(S_Blank), Some(S_Song), Some(S_SongPad)}

YouTubeOembedResponses ==
  Failures \cup Answers(OembedTitles, {None, Some(S_Chan)}, {TRUE}, {FALSE}, {NoDuration})

InvidiousResponses ==
  {Failure("reject"), Failure("status")}
    \cup Answers({None}, {None}, {FALSE}, {FALSE}, {NoDuration, 0, 2})

RutubeOembedResponses ==
  Failures \cup Answers(OembedTitles, {None, Some(S_Chan)}, {TRUE, FALSE}, {FALSE}, {NoDuration})

VkApiResponses ==
  Failures \cup Answers({None, Some(<<>>), Some(S_Song), Some(S_AmpTitle)},
                        {None}, {TRUE, FALSE}, {TRUE, FALSE}, {NoDuration, 2})

\* a page: title is the content of its og:title tag, thumb whether it has og:image
PageTitles == {None, Some(S_Blank), Some(S_Song), Some(S_AmpTitle), Some(S_VK),
               Some(S_VKBarX), Some(S_VKontakte), Some(S_CyrBrandCap),
               Some(S_CyrBrandSmall), Some(S_CyrVKBar)}

PageResponses ==
  {Failure("reject"), Failure("status")}
    \cup Answers(PageTitles, {None}, {TRUE, FALSE}, {FALSE}, {NoDuration})

\* What a strategy yields: metadata ("info"), null, or an exception ("throw")
Info(title, channel, thumbnail, duration) ==
  [kind |-> "info", title |-> title, channelName |-> channel,
   thumbnailUrl |-> thumbnail, duration |-> duration]

NullInfo == [kind |-> "null", title |-> <<>>, channelName |-> <<>>,
             thumbnailUrl |-> "null", duration |-> NoDuration]

Thrown == [kind |-> "throw", title |-> <<>>, channelName |-> <<>>,
           thumbnailUrl |-> "null", duration |-> NoDuration]

\* a catch block that returns null
CatchNull(r) == IF r.kind = "throw" THEN NullInfo ELSE r

\* --- YouTube ---

\* the try block of tryOembed
OembedTry(res) ==
  IF res.net = "reject" THEN Thrown            \* await fetch rejects
  ELSE IF res.net = "status" THEN NullInfo     \* !res.ok
  ELSE IF res.net \in {"badjson", "null"} THEN Thrown  \* res.json() rejects; data.title of null
  ELSE LET title == IF res.title.some THEN Trim(res.title.s) ELSE <<>>
       IN  IF title = <<>> THEN NullInfo
           ELSE Info(title,
                     IF res.author.some THEN Trim(res.author.s) ELSE S_YouTube,
                     "youtube:maxresdefault", NoDuration)

\* tryOembed without its catch block: an exception of the try block escapes
tryOembed_NoCatch(res) == OembedTry(res)

tryOembed(res) == CatchNull(OembedTry(res))

\* the round that takes any number for a duration
InvidiousRound_AnyNumber(res) ==
  IF res.net = "ok" /\ res.duration # NoDuration THEN res.duration ELSE NoDuration

\* one round of the loop of tryInvidiousDuration: the duration found, or
\* NoDuration when the loop goes on to the next instance
InvidiousRound(res) ==
  IF res.net = "ok" /\ res.duration > 0 THEN res.duration ELSE NoDuration

\* tryInvidiousDuration after the instances of `got` answered, in order
tryInvidiousDuration(got) ==
  IF \E i \in 1..Len(got) : InvidiousRound(got[i]) # NoDuration
  THEN InvidiousRound(got[CHOOSE i \in 1..Len(got) :
                            /\ InvidiousRound(got[i]) # NoDuration
                            /\ \A j \in 1..(i - 1) : InvidiousRound(got[j]) = NoDuration])
  ELSE NoDuration

YouTubeStub == Info(S_YouTubeVideo, S_YouTube, "youtube:maxresdefault", NoDuration)

\* getYouTubeInfo: the call it makes after the answers `got`, "return" when it
\* makes none
YouTubeNextCall(got) ==
  IF got = <<>> THEN "oembed"
  ELSE IF tryOembed(got[1]).kind # "info" THEN "return"
  ELSE IF /\ Len(got) - 1 < InvidiousInstances
          /\ tryInvidiousDuration(Tail(got)) = NoDuration
       THEN "invidious"
       ELSE "return"

\* getYouTubeInfo: what it returns after the answers `got`
getYouTubeInfo(got) ==
  LET oembedResult == tryOembed(got[1])
  IN  IF oembedResult.kind = "throw" THEN Thrown
      ELSE IF oembedResult.kind = "info"
      THEN [oembedResult EXCEPT !.duration = tryInvidiousDuration(Tail(got))]
      ELSE YouTubeStub

\* --- Rutube ---

RutubeStub == Info(S_RutubeVideo, S_Unknown, "rutube:api-thumbnail", NoDuration)

\* the try block of getRutubeInfo
RutubeTry(res) ==
  IF res.net # "ok" THEN Thrown
  ELSE Info(IF res.title.some THEN res.title.s ELSE S_RutubeVideo,
            IF res.author.some THEN res.author.s ELSE S_Unknown,
            IF res.thumb THEN "upstream" ELSE "null",
            NoDuration)

\* getRutubeInfo: the catch block returns the basic info
getRutubeInfo(got) ==
  LET r == RutubeTry(got[1])
  IN  IF r.kind = "throw" THEN RutubeStub ELSE r

RutubeNextCall(got) == IF got = <<>> THEN "oembed" ELSE "return"

\* --- VK ---

\* extractOgMeta for og:title: content="([^"]+)" needs one character at least
extractOgTitle(res) ==
  IF res.title.some /\ res.title.s # <<>> THEN res.title ELSE None


\* the generic-title test of extractTitle
isGeneric(raw) ==
  \/ raw = S_VK
  \/ Includes(ToLowerCase(raw), S_vkontakte)
  \/ Includes(raw, S_CyrBrandCap)
  \/ Includes(raw, S_CyrBrandSmall)
  \/ StartsWith(raw, S_VKBar)
  \/ StartsWith(raw, S_CyrVKBar)

\* extractTitle: the decoded og:title, None for a missing, blank or generic one
extractTitle(res) ==
  LET raw == IF extractOgTitle(res).some THEN Trim(extractOgTitle(res).s) ELSE <<>>
  IN  IF raw = <<>> THEN None
      ELSE IF isGeneric(raw) THEN None
      ELSE Some(decodeHtmlEntities(raw))

\* the try block of tryVkApi (reached only with VK_SERVICE_TOKEN set)
VkApiTry(res) ==
  IF res.net = "reject" THEN Thrown
  ELSE IF res.net = "status" THEN NullInfo
  ELSE IF res.net \in {"badjson", "null"} THEN Thrown
  ELSE IF res.error THEN NullInfo
  ELSE IF ~res.title.some \/ res.title.s = <<>> THEN NullInfo    \* !item?.title
  ELSE Info(decodeHtmlEntities(res.title.s), S_VKVideo,
            IF res.thumb THEN "upstream" ELSE "null", res.duration)

tryVkApi(res) == CatchNull(VkApiTry(res))

\* the try block shared by tryGooglebotScraping and tryDesktopScraping
ScrapingTry(res) ==
  IF res.net = "reject" THEN Thrown
  ELSE IF res.net # "ok" THEN NullInfo
  ELSE IF ~extractTitle(res).some THEN NullInfo
  ELSE Info(extractTitle(res).s, S_VKVideo,
            IF res.thumb THEN "upstream" ELSE "null", NoDuration)

tryGooglebotScraping(res) == CatchNull(ScrapingTry(res))

tryDesktopScraping(res) == CatchNull(ScrapingTry(res))

VkStub == Info(S_VKVideo, S_VKVideo, "null", NoDuration)

\* the strategies with the two page fetches in the other order
VkStrategies_DesktopFirst(token) ==
  IF token THEN <<"api", "desktop", "googlebot">> ELSE <<"desktop", "googlebot">>

\* the strategies of getVkVideoInfo that make a network call, in order;
\* tryVkApi returns null before any call when the token is absent
VkStrategies(token) ==
  IF token THEN <<"api", "googlebot", "desktop">> ELSE <<"googlebot", "desktop">>

VkApply(name, res) ==
  IF name = "api" THEN tryVkApi(res)
  ELSE IF name = "googlebot" THEN tryGooglebotScraping(res)
  ELSE tryDesktopScraping(res)

\* getVkVideoInfo: the call it makes after the answers `got`
VkNextCall(token, got) ==
  LET st == VkStrategies(token)
  IN  IF \E i \in 1..Len(got) : VkApply(st[i], got[i]).kind # "null" THEN "return"
      ELSE IF Len(got) < Len(st) THEN st[Len(got) + 1]
      ELSE "return"

\* getVkVideoInfo: what it returns after the answers `got`
getVkVideoInfo(token, got) ==
  LET st == VkStrategies(token)
  IN  IF \E i \in 1..Len(got) : VkApply(st[i], got[i]).kind # "null"
      THEN LET first == CHOOSE i \in 1..Len(got) :
                          /\ VkApply(st[i], got[i]).kind # "null"
                          /\ \A j \in 1..(i - 1) : VkApply(st[j], got[j]).kind = "null"
           IN  VkApply(st[first], got[first])
      ELSE VkStub

\* --- the chains as one step machine ---

Platforms == {"youtube", "rutube", "vk"}

NextCall(platform, token, got) ==
  IF platform = "youtube" THEN YouTubeNextCall(got)
  ELSE IF platform = "rutube" THEN RutubeNextCall(got)
  ELSE VkNextCall(token, got)

Resolve(platform, token, got) ==
  IF platform = "youtube" THEN getYouTubeInfo(got)
  ELSE IF platform = "rutube" THEN getRutubeInfo(got)
  ELSE getVkVideoInfo(token, got)

ResponsesOf(platform, call) ==
  IF call = "invidious" THEN InvidiousResponses
  ELSE IF call = "api" THEN VkApiResponses
  ELSE IF call \in {"googlebot", "desktop"} THEN PageResponses
  ELSE IF platform = "youtube" THEN YouTubeOembedResponses
  ELSE RutubeOembedResponses

\* a fetch that is given no signal
NoTimeout == 0

\* AbortSignal.timeout(ms) of the fetch of each call, in milliseconds
TimeoutMs(platform, call) ==
  IF call = "invidious" THEN 5000
  ELSE IF call = "api" THEN 8000
  ELSE IF call \in {"googlebot", "desktop"} THEN 10000
  ELSE IF platform = "youtube" THEN 8000
  ELSE NoTimeout

RsIdle == [pc |-> "idle", platform |-> "youtube", token |-> FALSE,
           got |-> <<>>, calls |-> <<>>, result |-> NullInfo]

\* resolve(platform, externalId) is entered; token: VK_SERVICE_TOKEN is set
ResolveStart(platform, token) ==
  /\ rs.pc = "idle"
  /\ rs' = [RsIdle EXCEPT !.pc = "running", !.platform = platform, !.token = token]
  /\ UNCHANGED dbVars

\* the chain awaits its next network call, which comes back with `res`
ResolveFetch ==
  /\ rs.pc = "running"
  /\ NextCall(rs.platform, rs.token, rs.got) # "return"
  /\ \E res \in ResponsesOf(rs.platform, NextCall(rs.platform, rs.token, rs.got)) :
        rs' = [rs EXCEPT !.got = Append(@, res),
                         !.calls = Append(@, NextCall(rs.platform, rs.token, rs.got))]
  /\ UNCHANGED dbVars

\* the chain returns, or rejects when an exception escaped a strategy
ResolveReturn ==
  /\ rs.pc = "running"
  /\ NextCall(rs.platform, rs.token, rs.got) = "return"
  /\ LET r == Resolve(rs.platform, rs.token, rs.got)
     IN  rs' = [rs EXCEPT !.pc = IF r.kind = "throw" THEN "threw" ELSE "returned",
                          !.result = r]
  /\ UNCHANGED dbVars


\* ------------------------------------------------------------------------
\* The database at start-up
\* ------------------------------------------------------------------------

Row(userId, platform, externalId, title, channel, parentId) ==
  [user_id |-> userId, platform |-> platform, external_id |-> externalId,
   title |-> title, channel_name |-> channel, parent_id |-> parentId,
   is_watched |-> FALSE]

\* initTables creates the tables only IF NOT EXISTS: the file found at
\* DB_PATH keeps the rows of earlier runs.
\* DbEmpty: a new file.  DbStart: one user has opened the bot, nothing queued.
\* DbFamily: two users; the first has a YouTube root with its Rutube mirror,
\* the second a root of their own.
DbEmpty == [users |-> <<>>, videos |-> <<>>, nextVideoId |-> 1]

DbStart == [users |-> (101 :> 1), videos |-> <<>>, nextVideoId |-> 1]

DbFamily ==
  [users |-> (101 :> 1) @@ (102 :> 2),
   videos |-> (1 :> Row(1, "youtube", "y1", S_Song, S_Chan, NoId))
           @@ (2 :> Row(1, "rutube", "r1", S_Song, S_Chan, 1))
           @@ (3 :> Row(2, "youtube", "y1", S_Song, S_Chan, NoId)),
   nextVideoId |-> 4]

\* DbOldFamily: the first user has an older YouTube root with its Rutube mirror
DbOldFamily ==
  [users |-> (101 :> 1),
   videos |-> (1 :> Row(1, "youtube", "y0", S_Song, S_Chan, NoId))
           @@ (2 :> Row(1, "rutube", "r0", S_Song, S_Chan, 1)),
   nextVideoId |-> 3]

\* DbWithRutube: the first user has queued the Rutube link
DbWithRutube ==
  [users |-> (101 :> 1),
   videos |-> (1 :> Row(1, "rutube", "r1", S_Song, S_Chan, NoId)),
   nextVideoId |-> 2]

\* status: the HTTP status answered; videoId: the row returned; after: the
\* requests for the same owner and link that had been answered 201, with their
\* row still there, when this one arrived; rows: the number of rows of the
\* owner and link when this one was answered; during: the requests for the
\* same owner and link that were awaiting their resolution when this one arrived
ReqIdle == [pc |-> "idle", tg |-> NoTg, platform |-> "none", externalId |-> "",
            status |-> 0, videoId |-> NoId, after |-> {}, rows |-> 0, during |-> {}]

NoResp == [op |-> "none", tg |-> NoTg, videoId |-> NoId, status |-> 0,
           position |-> NoPos, stored |-> FALSE]

\* queries: searchQueries, computed as the run starts;
\* root: the root row as the intake saved it; log: the rounds made, each with
\* its query, what the two searches met, the number of candidates they handed
\* back and how many of them had an external id; decisions: the candidates
\* scored, each with its scores and whether it passed the gate; skipped: the
\* rows found in the way of a candidate; threw: the run ended in its catch block
FinderNone == [pc |-> "none", round |-> 0, query |-> <<>>, channel |-> <<>>,
               userId |-> NoId, parentId |-> NoId,
               queries |-> <<>>,
               root |-> Row(NoId, "none", "", <<>>, <<>>, NoId), log |-> <<>>,
               decisions |-> {}, skipped |-> {}, threw |-> FALSE]

NoCall == [videoId |-> NoId, id |-> NoId]

\* verifyTelegramWebAppData has not been called
NoVerify == [pc |-> "none"]

\* parseVideoUrl has not been called
NoParse == [pc |-> "none"]

\* no request of the proxy or stream routes has been answered
NoServe == [route |-> "none", key |-> "", status |-> 0, hit |-> FALSE,
            left |-> 0, evicted |-> "", resolves |-> 0, fetches |-> 0]

\* the process has just started: both caches are empty Maps.  thumb and urls
\* hold the entries in the insertion order of their Map; now is Date.now()
\* in ticks; last is the answer of the latest request, with the time the
\* served entry had left, the key evicted, and the calls of yt-dlp and of
\* the upstream the request made
CachesEmpty == [thumb |-> <<>>, urls |-> <<>>, now |-> 0, last |-> NoServe]

\* no save of the player has been sent
NoSave == [kind |-> "none", video |-> NoId, pos |-> NoPos, settled |-> FALSE]

\* no video is opened in the player: the component is not mounted.  fetch is
\* the state of the getProgress call of the mount and fetched the position it
\* answered, late a cancelled call still in flight, answered the button pressed in the resume prompt, sent
\* the latest saveProgress call with whether the fetch (and the prompt) had
\* been settled when it was made
PlayerClosed == [pc |-> "closed", video |-> NoId, fetch |-> "none", fetched |-> NoPos,
                 late |-> FALSE,
                 savedProgress |-> NoPos, showResumeModal |-> FALSE,
                 playbackReady |-> FALSE, startFrom |-> 0, elapsed |-> 0,
                 timers |-> FALSE, answered |-> "none", sent |-> NoSave]

InitWith(db) ==
  /\ users = db.users
  /\ videos = db.videos
  /\ nextVideoId = db.nextVideoId
  /\ progress = <<>>
  /\ resp = NoResp
  /\ lastSave = <<>>
  /\ orphans = {}
  /\ deletes = 0
  /\ req = [r \in ReqIds |-> ReqIdle]
  /\ finder = [r \in ReqIds |-> FinderNone]
  /\ mirrors = {}
  /\ canon = NoCall
  /\ rs = RsIdle
  /\ verified = NoVerify
  /\ parsedUrl = NoParse
  /\ cache = CachesEmpty
  /\ player = PlayerClosed

Init == InitWith(DbFamily)

\* ------------------------------------------------------------------------
\* Progress routes
\* ------------------------------------------------------------------------

\* the members of the family of root: the root and the rows naming it as parent
Family(root) == {root} \cup {v \in DOMAIN videos : videos[v].parent_id = root}

\* the existing roots whose family holds videoId
RootsOf(videoId) ==
  {r \in DOMAIN videos : videos[r].parent_id = NoId /\ videoId \in Family(r)}

\* the upsert with ON CONFLICT DO NOTHING: a row that exists keeps its position
UpsertProgress_DoNothing(pr, userId, videoId, position) ==
  [k \in DOMAIN pr \cup {<<userId, videoId>>} |->
     IF k \in DOMAIN pr THEN pr[k] ELSE position]

\* INSERT ... ON CONFLICT(user_id, video_id) DO UPDATE SET position_seconds
UpsertProgress(pr, userId, videoId, position) ==
  [k \in DOMAIN pr \cup {<<userId, videoId>>} |->
     IF k = <<userId, videoId>> THEN position ELSE pr[k]]

\* the ownership check without the user: SELECT id FROM videos WHERE id = ?
OwnsVideo_AnyUser(userId, videoId) == videoId \in DOMAIN videos

\* the ownership check of the save route: SELECT id FROM videos WHERE id = ? AND user_id = ?
OwnsVideo(userId, videoId) ==
  videoId \in DOMAIN videos /\ videos[videoId].user_id = userId

\* the save route storing under the id the caller sent
StorageKey_Raw(videoId) == videoId

\* the id the save route stores under
StorageKey(videoId) == getCanonicalId(videoId)

\* GET /progress/:video_id
GetProgress(tg, videoId) ==
  /\ resp' = IF tg = NoTg
             THEN [NoResp EXCEPT !.op = "get", !.videoId = videoId, !.status = 401]
             ELSE [op |-> "get", tg |-> tg, videoId |-> videoId, status |-> 200,
                   position |-> ReadProgress(tg, videoId),
                   stored |-> ReadProgress(tg, videoId) # NoPos]
  /\ UNCHANGED <<users, videos, nextVideoId, progress, lastSave, orphans, deletes,
                   req, finder, mirrors, canon, rs, frameVars>>

\* POST /progress with {video_id, position_seconds}; half is the position in
\* half seconds
SaveProgress(tg, videoId, half) ==
  LET uid == FindByTelegramId(tg)
      answer(status, position, stored) ==
        [op |-> "save", tg |-> tg, videoId |-> videoId, status |-> status,
         position |-> position, stored |-> stored]
  IN
  IF tg = NoTg THEN
    /\ resp' = answer(401, NoPos, FALSE)
    /\ UNCHANGED <<users, videos, nextVideoId, progress, lastSave, orphans, deletes,
                   req, finder, mirrors, canon, rs, frameVars>>
  ELSE IF uid = NoId THEN
    /\ resp' = answer(404, NoPos, FALSE)
    /\ UNCHANGED <<users, videos, nextVideoId, progress, lastSave, orphans, deletes,
                   req, finder, mirrors, canon, rs, frameVars>>
  ELSE IF half = NotANumber \/ half < 0 THEN
    \* typeof position_seconds !== 'number', or position_seconds < 0
    /\ resp' = answer(400, NoPos, FALSE)
    /\ UNCHANGED <<users, videos, nextVideoId, progress, lastSave, orphans, deletes,
                   req, finder, mirrors, canon, rs, frameVars>>
  ELSE IF ~OwnsVideo(uid, videoId) THEN
    \* the synthetic progress object, row id 0
    /\ resp' = answer(200, Floor(half), FALSE)
    /\ UNCHANGED <<users, videos, nextVideoId, progress, lastSave, orphans, deletes,
                   req, finder, mirrors, canon, rs, frameVars>>
  ELSE
    /\ progress' = UpsertProgress(progress, uid, StorageKey(videoId), Floor(half))
    /\ resp' = answer(200, progress'[<<uid, StorageKey(videoId)>>], TRUE)
    /\ lastSave' = [k \in DOMAIN lastSave \cup {<<uid, r>> : r \in RootsOf(videoId)} |->
                      IF k[1] = uid /\ k[2] \in RootsOf(videoId)
                      THEN [half |-> half, via |-> videoId] ELSE lastSave[k]]
    /\ UNCHANGED <<users, videos, nextVideoId, orphans, deletes, req, finder,
                   mirrors, canon, rs, frameVars>>

\* ------------------------------------------------------------------------
\* DELETE /videos/:id
\* ------------------------------------------------------------------------

\* 401 without a user, 404 without a users row or when VideoModel.delete
\* changed no row (result.changes = 0)
DeleteVideo(tg, id) ==
  LET uid == FindByTelegramId(tg)
      after == VideoModelDelete(videos, id, uid)
      success == after # videos
      answer(status) ==
        [op |-> "delete", tg |-> tg, videoId |-> id, status |-> status,
         position |-> NoPos, stored |-> FALSE]
  IN
  IF tg = NoTg \/ uid = NoId \/ ~success THEN
    /\ resp' = answer(IF tg = NoTg THEN 401 ELSE 404)
    /\ UNCHANGED <<users, videos, nextVideoId, progress, lastSave, orphans, deletes,
                   req, finder, mirrors, canon, rs, frameVars>>
  ELSE
    /\ deletes < MaxDel
    /\ deletes' = deletes + 1
    /\ videos' = after
    /\ progress' = CascadeProgress(progress, id)
    /\ lastSave' = [k \in {q \in DOMAIN lastSave : q[2] # id} |-> lastSave[k]]
    /\ orphans' = (orphans \ {id}) \cup
                    {v \in DOMAIN videos : videos[v].parent_id = id}
    /\ resp' = answer(200)
    /\ UNCHANGED <<users, nextVideoId, req, finder, mirrors, canon, rs, frameVars>>


\* VideoModel.findByUserId: the rows of a user, each with its id
findByUserId(userId) ==
  {[id |-> i, row |-> videos[i]] : i \in {j \in DOMAIN videos : videos[j].user_id = userId}}

\* GET /videos: 401 without a user, an empty list without a users row
ListVideos(tg) ==
  LET uid == FindByTelegramId(tg)
  IN
  /\ resp' = [op |-> "list", tg |-> tg, videoId |-> NoId,
              status |-> IF tg = NoTg THEN 401 ELSE 200,
              position |-> NoPos, stored |-> FALSE,
              rows |-> IF tg = NoTg \/ uid = NoId THEN {} ELSE findByUserId(uid)]
  /\ UNCHANGED <<users, videos, nextVideoId, progress, lastSave, orphans, deletes,
                 req, finder, mirrors, canon, rs, frameVars>>

\* VideoModel.markAsWatched: UPDATE videos SET is_watched = ? WHERE id = ? AND user_id = ?
markAsWatched(vs, id, userId, isWatched) ==
  IF id \in DOMAIN vs /\ vs[id].user_id = userId
  THEN [vs EXCEPT ![id].is_watched = isWatched]
  ELSE vs

\* PATCH /videos/:id with {isWatched}: 401 without a user, 404 without a
\* users row or when the UPDATE returned no row
PatchVideo(tg, id, isWatched) ==
  LET uid == FindByTelegramId(tg)
      found == id \in DOMAIN videos /\ videos[id].user_id = uid
      status == IF tg = NoTg THEN 401 ELSE IF uid = NoId \/ ~found THEN 404 ELSE 200
  IN
  /\ resp' = [op |-> "patch", tg |-> tg, videoId |-> id, status |-> status,
              position |-> NoPos, stored |-> FALSE]
  /\ videos' = IF status = 200 THEN markAsWatched(videos, id, uid, isWatched) ELSE videos
  /\ UNCHANGED <<users, nextVideoId, progress, lastSave, orphans, deletes,
                 req, finder, mirrors, canon, rs, frameVars>>

\* ------------------------------------------------------------------------
\* Fuzzy-match helpers of the alternative finder.  A score is a binary64
\* number, kept as the fraction n/d (d > 0) it approximates; below: the
\* number is the binary64 value just under n/d.
\* ------------------------------------------------------------------------

Frac(n, d) == [n |-> n, d |-> d, below |-> FALSE]

\* a >= b for numbers
FracGeq(a, b) ==
  \/ a.n * b.d > b.n * a.d
  \/ a.n * b.d = b.n * a.d /\ (b.below \/ ~a.below)

FracMax(a, b) == IF FracGeq(a, b) THEN a ELSE b

Min3(x, y, z) == IF x <= y /\ x <= z THEN x ELSE IF y <= z THEN y ELSE z

Max2(x, y) == IF x >= y THEN x ELSE y

\* one row of the table of levenshtein: curr[0] = i, then curr[j] for
\* j = lo..hi in turn, left to right (curr and prev hold cell j at index
\* j + 1).  The loop is cut in halves so that its evaluation stays shallow;
\* the test of Len(left), always true, has the first half computed before
\* the second one starts.
RECURSIVE LevCurr(_, _, _, _, _, _, _)
LevCurr(a, b, i, prev, curr, lo, hi) ==
  IF lo > hi THEN curr
  ELSE IF lo = hi
       THEN Append(curr, IF a[i] = b[lo]
                         THEN prev[lo]
                         ELSE 1 + Min3(prev[lo], prev[lo + 1], curr[lo]))
       ELSE LET mid == (lo + hi) \div 2
                left == LevCurr(a, b, i, prev, curr, lo, mid)
            IN  IF Len(left) > 0 THEN LevCurr(a, b, i, prev, left, mid + 1, hi)
                ELSE left

\* the rows lo..hi in turn, top to bottom, cut in halves likewise
RECURSIVE LevRows(_, _, _, _, _)
LevRows(a, b, prev, lo, hi) ==
  IF lo > hi THEN prev
  ELSE IF lo = hi THEN LevCurr(a, b, lo, prev, <<lo>>, 1, Len(b))
       ELSE LET mid == (lo + hi) \div 2
                upper == LevRows(a, b, prev, lo, mid)
            IN  IF Len(upper) > 0 THEN LevRows(a, b, upper, mid + 1, hi)
                ELSE upper

levenshtein(a, b) ==
  IF Len(a) = 0 THEN Len(b)
  ELSE IF Len(b) = 0 THEN Len(a)
  ELSE LevRows(a, b, [j \in 1..(Len(b) + 1) |-> j - 1], 1, Len(a))[Len(b) + 1]

\* 1 - lev / maxLen in binary64.  A quotient of two small integers and a
\* decimal literal are each the nearest binary64 number, so they compare as
\* the fractions do; the difference is rounded a second time.  For maxLen up
\* to 120 and the literals 0.45, 0.75 and 0.8 the outcome differs from the
\* fractions' for one quotient: 11/20 is 0.55000000000000004, and 1 minus it
\* is 0.44999999999999996, under the literal 0.45.
OneMinus(lev, maxLen) ==
  [Frac(maxLen - lev, maxLen) EXCEPT !.below = (20 * lev = 11 * maxLen)]

\* stringSimilarity: 1 - levenshtein / maxLen
stringSimilarity(a, b) ==
  IF a = b THEN Frac(1, 1)
  ELSE IF a = <<>> \/ b = <<>> THEN Frac(0, 1)
  ELSE OneMinus(levenshtein(a, b), Max2(Len(a), Len(b)))

\* the characters [a-z0-9] and the small Cyrillic letters
AlnumChars == {"a","b","c","d","e","f","g","h","i","j","k","l","m",
               "n","o","p","q","r","s","t","u","v","w","x","y","z",
               "0","1","2","3","4","5","6","7","8","9",
               "cyr-ve","cyr-ka","cyr-o","cyr-n","cyr-t","cyr-a","cyr-k","cyr-e"}

\* .replace(/[^a-z...0-9]/g, ' ')
BlankOthers(s) == [i \in 1..Len(s) |-> IF s[i] \in AlnumChars THEN s[i] ELSE " "]

\* the k-th smallest member of a set of positions
NthOf(S, k) == CHOOSE i \in S : Cardinality({j \in S : j <= i}) = k

\* .replace(/\s+/g, ' '): of every run of blanks the first one stays
CollapseSpaces(s) ==
  LET kept == {i \in 1..Len(s) : s[i] # " " \/ i = 1 \/ s[i - 1] # " "}
  IN  [k \in 1..Cardinality(kept) |-> s[NthOf(kept, k)]]

normalizeForMatch(s) == Trim(CollapseSpaces(BlankOthers(ToLowerCase(s))))

\* String.prototype.split on the characters of seps: the parts between the
\* separators, in order, one more than there are separators
SplitOn(s, seps) ==
  LET at == {i \in 1..Len(s) : s[i] \in seps}
      from(k) == IF k = 1 THEN 1 ELSE NthOf(at, k - 1) + 1
      to(k) == IF k = Cardinality(at) + 1 THEN Len(s) ELSE NthOf(at, k) - 1
  IN  [k \in 1..(Cardinality(at) + 1) |-> SubSeq(s, from(k), to(k))]

\* .filter((w) => w.length > minLen)
RECURSIVE FilterLonger(_, _)
FilterLonger(xs, minLen) ==
  IF xs = <<>> THEN <<>>
  ELSE IF Len(Head(xs)) > minLen THEN <<Head(xs)>> \o FilterLonger(Tail(xs), minLen)
  ELSE FilterLonger(Tail(xs), minLen)

tokenize(s) == FilterLonger(SplitOn(normalizeForMatch(s), {" "}), 2)

\* the number of words of aWords with an equal or similar word in bWords
WordMatches(aWords, bWords, threshold) ==
  Cardinality({i \in 1..Len(aWords) :
                 \E j \in 1..Len(bWords) :
                    \/ bWords[j] = aWords[i]
                    \/ FracGeq(stringSimilarity(aWords[i], bWords[j]), threshold)})

channelSimilarity(original, candidate) ==
  LET a == normalizeForMatch(original)
      b == normalizeForMatch(candidate)
      fullSim == stringSimilarity(a, b)
      aWords == tokenize(original)
      bWords == tokenize(candidate)
  IN  IF a = <<>> \/ b = <<>> THEN Frac(0, 1)
      ELSE IF a = b THEN Frac(1, 1)
      ELSE IF Includes(a, b) \/ Includes(b, a) THEN Frac(85, 100)
      ELSE IF Len(aWords) = 0 \/ Len(bWords) = 0 THEN fullSim
      ELSE FracMax(fullSim,
                   Frac(WordMatches(aWords, bWords, Frac(75, 100)),
                        Max2(Len(aWords), Len(bWords))))

titleOverlapScore(original, candidate) ==
  LET origWords == tokenize(original)
      candWords == tokenize(candidate)
  IN  IF Len(origWords) = 0 THEN Frac(0, 1)
      ELSE Frac(WordMatches(origWords, candWords, Frac(8, 10)), Len(origWords))

CHANNEL_SIM_THRESHOLD == Frac(45, 100)
TITLE_OVERLAP_THRESHOLD == Frac(4, 10)

\* the gate with exclusive bounds
PassesGate_Strict(chSim, titleOvr) ==
  \/ ~FracGeq(CHANNEL_SIM_THRESHOLD, chSim)
  \/ ~FracGeq(TITLE_OVERLAP_THRESHOLD, titleOvr)

\* the gate of findAlternatives: a candidate below both thresholds is skipped
PassesGate(chSim, titleOvr) ==
  \/ FracGeq(chSim, CHANNEL_SIM_THRESHOLD)
  \/ FracGeq(titleOvr, TITLE_OVERLAP_THRESHOLD)

\* score: chSim * 0.4 + titleOvr * 0.6, as a fraction
ScoreOf(chSim, titleOvr) ==
  Frac(4 * chSim.n * titleOvr.d + 6 * titleOvr.n * chSim.d, 10 * chSim.d * titleOvr.d)

\* ------------------------------------------------------------------------
\* The resolution of an intake, and what a finder run is started with
\* ------------------------------------------------------------------------

S_HiClauses ==
  <<"H","i","!"," ","a","a","a"," ","b","b","b"," ","c","c","c"," ","d",
    "d","d"," ","e","e","e">>
S_Clause ==
  <<"a","a","a"," ","b","b","b"," ","c","c","c"," ","d","d","d"," ","e",
    "e","e">>
S_TwentyWords ==
  <<"a","a","a"," ","b","b","b"," ","c","c","c"," ","d","d","d"," ","e",
    "e","e"," ","f","f","f"," ","g","g","g"," ","h","h","h"," ","i","i",
    "i"," ","j","j","j"," ","k","k","k"," ","l","l","l"," ","m","m","m",
    " ","n","n","n"," ","o","o","o"," ","p","p","p"," ","q","q","q"," ",
    "r","r","r"," ","s","s","s"," ","t","t","t">>
S_NineWords ==
  <<"a","a","a"," ","c","c","c"," ","e","e","e"," ","g","g","g"," ","i",
    "i","i"," ","k","k","k"," ","m","m","m"," ","o","o","o"," ","q","q",
    "q">>
S_EightWords ==
  <<"a","a","a"," ","c","c","c"," ","e","e","e"," ","g","g","g"," ","i",
    "i","i"," ","k","k","k"," ","m","m","m"," ","o","o","o">>
S_TwoOfFive == <<"a","a","a"," ","b","b","b"," ","z","z","z">>
S_OneOfFive == <<"a","a","a"," ","z","z","z">>
S_Abc == <<"A","b","c">>
S_AbAb ==
  <<"a","b"," ","a","b"," ","a","b"," ","a","b"," ","a","b"," ","a","b",
    " ","a","b">>
S_AbZz ==
  <<"a","b"," ","a","b"," ","a","b"," ","z","z","z","z","z","z","z","z",
    "z","z","z">>

\* an oEmbed answer with a title and an author, and an Invidious answer with
\* a duration
OembedOf(title, author) ==
  << [Failure("ok") EXCEPT !.title = Some(title), !.author = Some(author)],
     [Failure("ok") EXCEPT !.duration = 2] >>

\* the answers the upstreams give while one intake resolves its link: every
\* call fails, or the first call of the chain brings real metadata (Rutube
\* answers; for VK both pages fail)
IntakeAnswers(platform) ==
  IF platform = "youtube"
  THEN { <<Failure("reject")>>, OembedOf(S_Song, S_Chan) }
  ELSE IF platform = "rutube"
  THEN { <<[Failure("ok") EXCEPT !.title = Some(S_Song), !.author = Some(S_Chan)]>> }
  ELSE { <<Failure("reject"), Failure("status")>> }

\* the answers to a YouTube intake whose finder run is followed closely: the
\* ones above, a title of two clauses with a channel of twenty words, and a
\* short title with a channel of short words
FinderIntakeAnswers ==
  IntakeAnswers("youtube")
    \cup { OembedOf(S_HiClauses, S_TwentyWords), OembedOf(S_Abc, S_AbAb) }

\* the default info of the catch block of the route
UnknownInfo == Info(S_UnknownVideo, S_Unknown, "null", NoDuration)

\* the switch of the route with its catch; VK_SERVICE_TOKEN is not set
VideoInfoOf(platform, got) ==
  IF Resolve(platform, FALSE, got).kind = "throw" THEN UnknownInfo
  ELSE Resolve(platform, FALSE, got)

\* ------------------------------------------------------------------------
\* findAlternatives: the query of each round
\* ------------------------------------------------------------------------

TrimAll(parts) == [i \in 1..Len(parts) |-> Trim(parts[i])]

\* the parts of any length
QueryParts_AnyLength(query) == TrimAll(SplitOn(query, {"?", "|", ".", "!"}))

\* query.split(/[?|.!]/).map(p => p.trim()).filter(p => p.length > 5)
QueryParts(query) == FilterLonger(TrimAll(SplitOn(query, {"?", "|", ".", "!"})), 5)

\* [query, queryParts[0]].filter(Boolean)
SearchQueries(query) ==
  (IF query # <<>> THEN <<query>> ELSE <<>>)
    \o (IF QueryParts(query) # <<>> THEN <<QueryParts(query)[1]>> ELSE <<>>)

\* ------------------------------------------------------------------------
\* The searches of the alternative finder
\* ------------------------------------------------------------------------

Candidate(platform, externalId, title, channel) ==
  [platform |-> platform, externalId |-> externalId, title |-> title,
   channelName |-> channel]

\* an item of a search answer: its id, its title and author members, and for
\* an id of the Rutube search page what the oEmbed call for it comes back with
Item(externalId, title, author) ==
  [externalId |-> externalId, title |-> title, author |-> author,
   res |-> Failure("reject")]

PageItem(externalId, res) ==
  [externalId |-> externalId, title |-> None, author |-> None, res |-> res]

\* What one search meets.  kind: "notoken" (VK_SERVICE_TOKEN is not set),
\* "reject" (the fetch rejects: network error, or the AbortSignal timeout
\* fired), "error" (VK answers with data.error), "ok" (the API answers with
\* `items`; for Rutube `page` are the ids its search page lists)
SearchOutcome(kind, items, page) == [kind |-> kind, items |-> items, page |-> page]

\* what a search hands back: candidates, or an exception
Found(alts) == [kind |-> "found", alts |-> alts]

SearchThrown == [kind |-> "throw", alts |-> <<>>]

\* a catch block that returns []
CatchEmpty(r) == IF r.kind = "throw" THEN Found(<<>>) ELSE r

\* the try block of searchVkVideos
VkSearchTry(out) ==
  IF out.kind = "reject" THEN SearchThrown
  ELSE IF out.kind = "error" THEN Found(<<>>)
  ELSE Found([i \in 1..Len(out.items) |->
                Candidate("vk", out.items[i].externalId,
                          decodeHtmlEntities(IF out.items[i].title.some
                                             THEN out.items[i].title.s
                                             ELSE S_VKVideo),
                          S_VKVideo)])

\* searchVkVideos without its catch block
searchVkVideos_NoCatch(out) ==
  IF out.kind = "notoken" THEN Found(<<>>) ELSE VkSearchTry(out)

\* searchVkVideos
searchVkVideos(out) ==
  IF out.kind = "notoken" THEN Found(<<>>) ELSE CatchEmpty(VkSearchTry(out))

\* query.toLowerCase().replace(/[^a-z...0-9]/g, ' ').split(/\s+/)
\*   .filter(w => w.length > 3)
QueryWords(query) ==
  FilterLonger(SplitOn(CollapseSpaces(BlankOthers(ToLowerCase(query))), {" "}), 3)

\* data.results.filter(item => queryWords.every(word => title.includes(word)))
RECURSIVE MatchingItems(_, _)
MatchingItems(query, items) ==
  IF items = <<>> THEN <<>>
  ELSE IF \A i \in 1..Len(QueryWords(query)) :
             Includes(ToLowerCase(Head(items).title.s), QueryWords(query)[i])
  THEN <<Head(items)>> \o MatchingItems(query, Tail(items))
  ELSE MatchingItems(query, Tail(items))

\* .slice(0, limit)
Slice(seq, limit) == SubSeq(seq, 1, IF Len(seq) < limit THEN Len(seq) ELSE limit)

\* the try block of searchRutubeVideos: the matches of the search API, or,
\* with none, the ids of the search page resolved through getRutubeInfo
RutubeSearchTry(query, out) ==
  IF out.kind = "reject" THEN SearchThrown
  ELSE LET matches == Slice(MatchingItems(query, out.items), 3)
           ids == Slice(out.page, 3)
       IN  IF matches # <<>>
           THEN Found([i \in 1..Len(matches) |->
                         Candidate("rutube", matches[i].externalId, matches[i].title.s,
                                   IF matches[i].author.some /\ matches[i].author.s # <<>>
                                   THEN matches[i].author.s ELSE S_Rutube)])
           ELSE Found([i \in 1..Len(ids) |->
                         Candidate("rutube", ids[i].externalId,
                                   getRutubeInfo(<<ids[i].res>>).title,
                                   getRutubeInfo(<<ids[i].res>>).channelName)])

\* searchRutubeVideos
searchRutubeVideos(query, out) == CatchEmpty(RutubeSearchTry(query, out))

S_SongLive     == <<"S","o","n","g"," ","(","l","i","v","e",")">>
S_ChanOfficial == <<"C","h","a","n"," ","O","f","f","i","c","i","a","l">>
S_Zzz          == <<"Z","z","z"," ","q","q","q">>
S_Nope         == <<"N","o","p","e">>

\* what the searches of an intake's finder run meet: nothing, or items
VkSearchResults ==
  { SearchOutcome("ok", <<>>, <<>>),
    SearchOutcome("ok", <<Item("-3_4", Some(S_Zzz), None),
                          Item("-1_2", Some(S_Song), None)>>, <<>>) }

RutubeSearchResults ==
  { SearchOutcome("ok", <<>>, <<>>),
    SearchOutcome("ok", <<Item("", Some(S_Song), Some(S_Chan)),
                          Item("r1", Some(S_SongLive), Some(S_ChanOfficial))>>, <<>>) }

\* what the searches of the finder run followed closely meet: the above, the
\* failures, a VK item without a title, a Rutube item without an id alone,
\* Rutube items around the thresholds of the gate, and a Rutube search page
\* with an id whose oEmbed call fails
VkSearchOutcomes ==
  VkSearchResults
    \cup { SearchOutcome("notoken", <<>>, <<>>), SearchOutcome("reject", <<>>, <<>>),
           SearchOutcome("error", <<>>, <<>>),
           SearchOutcome("ok", <<Item("-5_6", None, None)>>, <<>>) }

RutubeSearchOutcomes ==
  RutubeSearchResults
    \cup { SearchOutcome("reject", <<>>, <<>>),
           SearchOutcome("ok", <<Item("", Some(S_Song), Some(S_Chan))>>, <<>>),
           SearchOutcome("ok", <<Item("b1", Some(S_OneOfFive), Some(S_NineWords)),
                                 Item("b2", Some(S_TwoOfFive), Some(S_Nope)),
                                 Item("b3", Some(S_Zzz), Some(S_AbZz))>>, <<>>),
           SearchOutcome("ok", <<Item("b4", Some(S_OneOfFive), Some(S_EightWords))>>,
                         <<PageItem("b5", Failure("status"))>>) }

S_Hi == <<"H","i">>

\* the titles and channels a finder run is started with, the clauses of those
\* titles, and the titles and channels of the candidates the searches hand back
FinderTitles == {S_Song, S_YouTubeVideo, S_UnknownVideo, S_HiClauses, S_Abc}
FinderChannels == {S_Chan, S_YouTube, S_Unknown, S_TwentyWords, S_AbAb}
FinderQueries == FinderTitles \cup {S_Hi, S_Clause}
CandidateTitles ==
  {S_Song, S_SongLive, S_Zzz, S_OneOfFive, S_TwoOfFive, S_VKVideo, S_RutubeVideo}
CandidateChannels ==
  {S_Chan, S_ChanOfficial, S_Nope, S_NineWords, S_EightWords, S_AbZz, S_VKVideo,
   S_Unknown}

\* searchRutubeVideos of every query for every outcome, tabulated
RutubeSearchOf ==
  [q \in FinderQueries, out \in RutubeSearchOutcomes |-> searchRutubeVideos(q, out)]

\* channelSimilarity and titleOverlapScore, tabulated
ChannelSimOf ==
  [original \in FinderChannels, candidate \in CandidateChannels |->
     channelSimilarity(original, candidate)]

TitleOverlapOf ==
  [original \in FinderTitles, candidate \in CandidateTitles |->
     titleOverlapScore(original, candidate)]

\* allFound.map(alt => ({ alt, chSim, titleOvr, score }))
Scored(allFound, query, originalChannel) ==
  [i \in 1..Len(allFound) |->
     LET chSim == ChannelSimOf[originalChannel, allFound[i].channelName]
         titleOvr == TitleOverlapOf[query, allFound[i].title]
     IN  [alt |-> allFound[i], chSim |-> chSim, titleOvr |-> titleOvr,
          score |-> ScoreOf(chSim, titleOvr)]]

\* scored.sort((a, b) => b.score - a.score): stable, highest score first
RECURSIVE InsertByScore(_, _)
InsertByScore(sorted, s) ==
  IF sorted = <<>> THEN <<s>>
  ELSE IF FracGeq(Head(sorted).score, s.score)
  THEN <<Head(sorted)>> \o InsertByScore(Tail(sorted), s)
  ELSE <<s>> \o sorted

RECURSIVE SortByScore(_)
SortByScore(scored) ==
  IF scored = <<>> THEN <<>>
  ELSE InsertByScore(SortByScore(SubSeq(scored, 1, Len(scored) - 1)),
                     scored[Len(scored)])

\* ------------------------------------------------------------------------
\* POST /videos (intake)
\* ------------------------------------------------------------------------

SameKey(r, tg, link) ==
  /\ req[r].tg = tg
  /\ req[r].platform = link.platform
  /\ req[r].externalId = link.externalId

\* the request arrives and runs up to its first await: validation, parsing,
\* the user upsert and the uniqueness check.  link = NoLink: no pattern matches.
NoLink == [platform |-> "none", externalId |-> ""]

IntakeStart(r, tg, link) ==
  LET uid == Upsert(tg)[tg]
      earlier == {q \in ReqIds : /\ SameKey(q, tg, link)
                                 /\ req[q].pc = "done"
                                 /\ req[q].status = 201
                                 /\ req[q].videoId \in DOMAIN videos}
      arrived == [ReqIdle EXCEPT !.tg = tg, !.platform = link.platform,
                                 !.externalId = link.externalId, !.after = earlier,
                                 !.during = {q \in ReqIds : /\ SameKey(q, tg, link)
                                                            /\ req[q].pc = "resolving"}]
  IN
  /\ req[r].pc = "idle"
  /\ \A q \in ReqIds : q < r => req[q].pc # "idle"
  /\ IF tg = NoTg \/ link = NoLink THEN
       /\ req' = [req EXCEPT ![r] = [ReqIdle EXCEPT !.pc = "done", !.status = 400]]
       /\ UNCHANGED users
     ELSE
       /\ users' = Upsert(tg)
       /\ IF VideoModelExists(videos, uid, link.platform, link.externalId)
          THEN req' = [req EXCEPT ![r] =
                         [arrived EXCEPT !.pc = "done", !.status = 409,
                                         !.rows = RowCount(videos, uid, link.platform,
                                                           link.externalId)]]
          ELSE req' = [req EXCEPT ![r] = [arrived EXCEPT !.pc = "resolving"]]
  /\ UNCHANGED <<videos, nextVideoId, progress, resp, lastSave, orphans, deletes,
                 finder, mirrors, canon, rs, auxVars>>

\* the finder is started for every platform
StartsFinder_Always(platform) == TRUE

\* if (parsed.platform === 'youtube') void findAlternatives(...)
StartsFinder(platform) == platform = "youtube"

\* the awaited resolution comes back with `got`: the row is saved, the finder
\* is started for a YouTube link and runs up to its first await, and 201 is
\* answered with the row
IntakeFinishWith(r, got) ==
  LET videoInfo == VideoInfoOf(req[r].platform, got)
      uid == FindByTelegramId(req[r].tg)
      created == VideoModelCreate(videos, nextVideoId, uid, req[r].platform,
                                  req[r].externalId, videoInfo.title,
                                  videoInfo.channelName, NoId)
  IN  /\ req[r].pc = "resolving"
      /\ created[2] <= MaxVideoId
      /\ videos' = created[1]
      /\ nextVideoId' = IF created[2] = nextVideoId THEN nextVideoId + 1
                        ELSE nextVideoId
      /\ req' = [req EXCEPT ![r].pc = "done", ![r].status = 201,
                            ![r].videoId = created[2],
                            ![r].rows = RowCount(created[1], uid, req[r].platform,
                                                 req[r].externalId)]
      /\ finder' = IF StartsFinder(req[r].platform)
                   THEN [finder EXCEPT ![r] =
                           [FinderNone EXCEPT
                              !.pc = IF SearchQueries(videoInfo.title) = <<>>
                                     THEN "done" ELSE "searching",
                              !.queries = SearchQueries(videoInfo.title),
                              !.round = 1,
                              !.query = videoInfo.title,
                              !.channel = videoInfo.channelName,
                              !.userId = uid, !.parentId = created[2],
                              !.root = created[1][created[2]]]]
                   ELSE finder
      /\ UNCHANGED <<users, progress, resp, lastSave, orphans, deletes, mirrors,
                     canon, rs, auxVars>>

IntakeFinish(r) ==
  \E got \in IntakeAnswers(req[r].platform) : IntakeFinishWith(r, got)

\* ------------------------------------------------------------------------
\* findAlternatives
\* ------------------------------------------------------------------------

\* .filter((v) => v.externalId)
RECURSIVE WithExternalId(_)
WithExternalId(alts) ==
  IF alts = <<>> THEN <<>>
  ELSE IF Head(alts).externalId # "" THEN <<Head(alts)>> \o WithExternalId(Tail(alts))
  ELSE WithExternalId(Tail(alts))

\* the duplicate test left out: no candidate is taken for one the owner has
AlreadyHas_Never(vs, userId, alt) == FALSE

\* if (VideoModel.exists(userId, alt.platform, alt.externalId)) continue
AlreadyHas(vs, userId, alt) ==
  VideoModelExists(vs, userId, alt.platform, alt.externalId)

\* the loop over the scored candidates: each one that passes the gate and
\* that the owner does not have yet is created.
\* st = [videos, nextVideoId, made, decisions, skipped]
RECURSIVE PersistAlts(_, _, _)
PersistAlts(scored, st, f) ==
  IF scored = <<>> THEN st
  ELSE LET alt == Head(scored).alt
           passes == PassesGate(Head(scored).chSim, Head(scored).titleOvr)
           decided == [st EXCEPT !.decisions =
                         @ \cup {[alt |-> alt, chSim |-> Head(scored).chSim,
                                  titleOvr |-> Head(scored).titleOvr,
                                  accepted |-> passes]}]
           created == VideoModelCreate(st.videos, st.nextVideoId, f.userId,
                                       alt.platform, alt.externalId, alt.title,
                                       alt.channelName, f.parentId)
       IN  IF ~passes THEN PersistAlts(Tail(scored), decided, f)
           ELSE IF AlreadyHas(st.videos, f.userId, alt)
           THEN PersistAlts(Tail(scored),
                            [decided EXCEPT !.skipped =
                               @ \cup {RowIdOf(st.videos, f.userId, alt.platform,
                                               alt.externalId)}],
                            f)
           ELSE PersistAlts(Tail(scored),
                            [decided EXCEPT
                               !.videos = created[1],
                               !.nextVideoId = st.nextVideoId + 1,
                               !.made = @ \cup {[id |-> created[2], root |-> f.parentId,
                                                 owner |-> f.userId]}],
                            f)

\* one round of the search loop ends: both searches of Promise.all have come
\* back, having met vkOut and rutubeOut.  With nothing found and a query left
\* the loop goes round again; otherwise the candidates are scored, sorted and
\* persisted and the run ends.  A search that throws rejects Promise.all and
\* the run ends in its catch block.
FinderRoundWith(r, vkOut, rutubeOut) ==
  LET f == finder[r]
      q == f.queries[f.round]
      vkAlts == searchVkVideos(vkOut)
      rutubeAlts == RutubeSearchOf[q, rutubeOut]
      allFound == WithExternalId(vkAlts.alts) \o WithExternalId(rutubeAlts.alts)
      entry == [q |-> q, vk |-> vkOut.kind, rutube |-> rutubeOut.kind,
                returned |-> Len(vkAlts.alts) + Len(rutubeAlts.alts),
                found |-> Len(allFound)]
      st == PersistAlts(SortByScore(Scored(allFound, f.query, f.channel)),
                        [videos |-> videos, nextVideoId |-> nextVideoId,
                         made |-> {}, decisions |-> {}, skipped |-> {}],
                        f)
  IN  /\ f.pc = "searching"
      /\ IF vkAlts.kind = "throw" \/ rutubeAlts.kind = "throw"
         THEN /\ finder' = [finder EXCEPT ![r].pc = "done", ![r].threw = TRUE,
                                          ![r].log = Append(@, entry)]
              /\ UNCHANGED <<videos, nextVideoId, mirrors>>
         ELSE IF allFound = <<>> /\ f.round < Len(f.queries)
         THEN /\ finder' = [finder EXCEPT ![r].round = f.round + 1,
                                          ![r].log = Append(@, entry)]
              /\ UNCHANGED <<videos, nextVideoId, mirrors>>
         ELSE /\ st.nextVideoId <= MaxVideoId + 1
              /\ videos' = st.videos
              /\ nextVideoId' = st.nextVideoId
              /\ mirrors' = mirrors \cup st.made
              /\ finder' = [finder EXCEPT ![r].pc = "done",
                                          ![r].log = Append(@, entry),
                                          ![r].decisions = st.decisions,
                                          ![r].skipped = st.skipped]
      /\ UNCHANGED <<users, progress, resp, lastSave, orphans, deletes, req, canon, rs, auxVars>>

FinderRound(r) ==
  \E vkOut \in VkSearchResults, rutubeOut \in RutubeSearchResults :
     FinderRoundWith(r, vkOut, rutubeOut)

\* ------------------------------------------------------------------------
\* The specifications
\* ------------------------------------------------------------------------

Callers == TelegramIds \cup {NoTg}

\* the progress routes and the delete route over the database found at start-up
Next ==
  \/ \E tg \in Callers, id \in VideoIds : DeleteVideo(tg, id) /\ UNCHANGED verified
  \/ \E tg \in Callers, id \in VideoIds : GetProgress(tg, id) /\ UNCHANGED verified
  \/ \E tg \in Callers, id \in VideoIds, half \in HalfPositions :
        SaveProgress(tg, id, half) /\ UNCHANGED verified

Spec == Init /\ [][Next]_vars

\* what the bot posts to the intake route: the first user sends both links,
\* the second the Rutube one; one post has no user, one a text no pattern matches
Submissions ==
  { <<101, YouTubeLink>>, <<101, RutubeLink>>, <<102, RutubeLink>>,
    <<NoTg, YouTubeLink>>, <<101, NoLink>> }

\* the intake route, the finder runs it starts and the delete route
NextIntake ==
  \/ \E r \in ReqIds, sub \in Submissions : IntakeStart(r, sub[1], sub[2])
  \/ \E r \in ReqIds : IntakeFinish(r)
  \/ \E r \in ReqIds : FinderRound(r)
  \/ \E tg \in Callers, id \in VideoIds : DeleteVideo(tg, id) /\ UNCHANGED verified

InitIntake == InitWith(DbStart)

SpecIntake == InitIntake /\ [][NextIntake]_vars

\* the same routes over a database that already holds a family
InitMirrors == InitWith(DbOldFamily)

SpecMirrors == InitMirrors /\ [][NextIntake]_vars

\* one intake of the YouTube link with the finder run it starts, followed
\* closely: the first user has posted the link, the route has passed its
\* uniqueness check and awaits the metadata; the searches meet every outcome
InitFinder ==
  /\ \E db \in {DbStart, DbWithRutube} :
       /\ users = db.users
       /\ videos = db.videos
       /\ nextVideoId = db.nextVideoId
  /\ progress = <<>>
  /\ resp = NoResp
  /\ lastSave = <<>>
  /\ orphans = {}
  /\ deletes = 0
  /\ req = [r \in ReqIds |->
              IF r = 1 THEN [ReqIdle EXCEPT !.pc = "resolving", !.tg = 101,
                                           !.platform = YouTubeLink.platform,
                                           !.externalId = YouTubeLink.externalId]
              ELSE ReqIdle]
  /\ finder = [r \in ReqIds |-> FinderNone]
  /\ mirrors = {}
  /\ canon = NoCall
  /\ rs = RsIdle
  /\ verified = NoVerify
  /\ parsedUrl = NoParse
  /\ cache = CachesEmpty
  /\ player = PlayerClosed

NextFinder ==
  \/ \E r \in ReqIds, got \in FinderIntakeAnswers : IntakeFinishWith(r, got)
  \/ \E r \in ReqIds, vkOut \in VkSearchOutcomes, rutubeOut \in RutubeSearchOutcomes :
        FinderRoundWith(r, vkOut, rutubeOut)
  \/ \E tg \in Callers, id \in VideoIds : DeleteVideo(tg, id) /\ UNCHANGED verified

SpecFinder == InitFinder /\ [][NextFinder]_vars

\* getCanonicalId alone, over every small videos table of one user, the ones
\* with a parent_id that names no row included (a file written with
\* foreign_keys off)
CanonTables ==
  UNION { { [i \in ids |-> Row(1, "vk", ToString(i), S_Song, S_Chan, par[i])] :
              par \in {f \in [ids -> {NoId} \cup VideoIds] : \A i \in ids : f[i] # i} } :
          ids \in SUBSET VideoIds }

InitCanon ==
  \E t \in CanonTables :
     InitWith([users |-> (101 :> 1), videos |-> t, nextVideoId |-> MaxVideoId + 1])

\* getCanonicalId(videoId) is called and returns
CanonicalCall(videoId) ==
  /\ canon' = [videoId |-> videoId, id |-> getCanonicalId(videoId)]
  /\ UNCHANGED <<users, videos, nextVideoId, progress, resp, lastSave, orphans, deletes,
                 req, finder, mirrors, rs, auxVars>>

NextCanon == \E videoId \in VideoIds : CanonicalCall(videoId)

SpecCanon == InitCanon /\ [][NextCanon]_vars

\* the resolver chains alone, over every answer of the upstreams
InitResolve == InitWith(DbEmpty)

NextResolve ==
  \/ \E platform \in Platforms, token \in BOOLEAN : ResolveStart(platform, token)
  \/ ResolveFetch
  \/ ResolveReturn

SpecResolve == InitResolve /\ [][NextResolve]_vars

\* ------------------------------------------------------------------------
\* Telegram authentication.  A text is a sequence of tokens [k, v]; initData
\* is kept as URLSearchParams reads it, a sequence of entries [key, value].
\* A digest is kept as the text of its key and its message: no two inputs
\* share a digest.
\* ------------------------------------------------------------------------

Tok(k, v) == [k |-> k, v |-> v]

Entry(key, value) == [key |-> key, value |-> value]

\* process.env.BOT_TOKEN, and the token of somebody else's bot
BOT_TOKEN == "bot-token"

S_OtherToken == "other-token"

\* crypto.createHmac('sha256', key).update(message).digest()
createHmac(key, message) == <<Tok("hmac", "")>> \o key \o <<Tok("of", "")>> \o message

\* the secret key made from a bot token
SecretKeyOf(token) == createHmac(<<Tok("str", "WebAppData")>>, <<Tok("str", token)>>)

\* a.localeCompare(b) over the parameter names Telegram sends
KeyRank == [auth_date |-> 1, query_id |-> 2, user |-> 3]

\* Array.prototype.sort with that comparison: stable
RECURSIVE SortEntries(_)
SortEntries(es) ==
  IF es = <<>> THEN <<>>
  ELSE LET sorted == SortEntries(SubSeq(es, 1, Len(es) - 1))
           e == es[Len(es)]
           before == {i \in 1..Len(sorted) : KeyRank[sorted[i].key] <= KeyRank[e.key]}
           n == Cardinality(before)
       IN  SubSeq(sorted, 1, n) \o <<e>> \o SubSeq(sorted, n + 1, Len(sorted))

\* .map(([key, value]) => `${key}=${value}`).join('\n')
RECURSIVE JoinEntries(_)
JoinEntries(es) ==
  IF es = <<>> THEN <<>>
  ELSE <<Tok("str", es[1].key), Tok("=", "")>> \o es[1].value \o
       (IF Len(es) = 1 THEN <<>> ELSE <<Tok("nl", "")>> \o JoinEntries(Tail(es)))

\* the parameters as they come, not sorted
DataCheckString_Unsorted(params) ==
  JoinEntries(SelectSeq(params, LAMBDA e : e.key # "hash"))

\* dataCheckString: the parameters without hash, sorted by name
DataCheckString(params) ==
  JoinEntries(SortEntries(SelectSeq(params, LAMBDA e : e.key # "hash")))

\* params.get(name): the value of the first entry of that name; none: <<>>
HasParam(params, name) == \E i \in 1..Len(params) : params[i].key = name

GetParam(params, name) ==
  IF HasParam(params, name)
  THEN params[CHOOSE i \in 1..Len(params) :
                 /\ params[i].key = name
                 /\ \A j \in 1..(i - 1) : params[j].key # name].value
  ELSE <<>>

\* the numbers written in the JSON texts of the inputs
NumberOf == [n101 |-> 101, n102 |-> 102, n0 |-> 0]

JsonScalars == {"num", "str", "null", "true", "false"}

\* JSON.parse over scalars and objects of scalars: ok is FALSE where it
\* throws a SyntaxError; of two members of one name the last is kept
JsonParse(text) ==
  LET n == Len(text)
      inner == SubSeq(text, 2, n - 1)
      wellFormed ==
        /\ Len(inner) % 4 = 3
        /\ \A i \in 1..Len(inner) :
             CASE i % 4 = 1 -> inner[i].k = "str"
               [] i % 4 = 2 -> inner[i].k = ":"
               [] i % 4 = 3 -> inner[i].k \in JsonScalars
               [] OTHER     -> inner[i].k = ","
      names == {inner[i].v : i \in {j \in 1..Len(inner) : j % 4 = 1}}
      lastOf(name) == CHOOSE i \in 1..Len(inner) :
                        /\ i % 4 = 1 /\ inner[i].v = name
                        /\ \A j \in (i + 1)..Len(inner) : ~(j % 4 = 1 /\ inner[j].v = name)
      none == [ok |-> FALSE, kind |-> "none", scalar |-> Tok("null", ""), members |-> <<>>]
  IN  IF n = 1 /\ text[1].k \in JsonScalars
      THEN [none EXCEPT !.ok = TRUE, !.kind = "scalar", !.scalar = text[1]]
      ELSE IF n >= 2 /\ text[1].k = "{" /\ text[n].k = "}" /\ (inner = <<>> \/ wellFormed)
      THEN [none EXCEPT !.ok = TRUE, !.kind = "object",
                        !.members = [name \in names |-> inner[lastOf(name) + 2]]]
      ELSE none

\* a field that is undefined, and the user that is null
Undefined == "undefined"

NoUser == [id |-> NoTg, username |-> Undefined, first_name |-> Undefined]

\* parseTelegramUser: [threw, user]; isNull tells a null from a user
parseTelegramUser(hasUser, userJson) ==
  LET parsed == JsonParse(userJson)
      null == [threw |-> FALSE, isNull |-> TRUE, user |-> NoUser]
      falsy == \/ parsed.scalar.k \in {"null", "false"}
               \/ parsed.scalar.k = "num" /\ NumberOf[parsed.scalar.v] = 0
               \/ parsed.scalar.k = "str" /\ parsed.scalar.v = ""
      stringOr(name) ==
        IF name \in DOMAIN parsed.members /\ parsed.members[name].k = "str"
        THEN parsed.members[name].v ELSE Undefined
  IN  IF ~hasUser \/ userJson = <<>> THEN null                      \* !userJson
      ELSE IF ~parsed.ok THEN [null EXCEPT !.threw = TRUE]           \* JSON.parse throws
      ELSE IF parsed.kind = "scalar" THEN null   \* !parsed || typeof parsed !== 'object'
      ELSE IF ~("id" \in DOMAIN parsed.members /\ parsed.members["id"].k = "num")
      THEN null                                  \* typeof candidate.id !== 'number'
      ELSE [null EXCEPT !.isNull = FALSE,
                        !.user = [id |-> NumberOf[parsed.members["id"].v],
                                  username |-> stringOr("username"),
                                  first_name |-> stringOr("first_name")]]

\* verifyTelegramWebAppData without its try and catch
verifyTelegramWebAppData_NoCatch(initData) ==
  LET hash == GetParam(initData, "hash")
      calculatedHash == createHmac(SecretKeyOf(BOT_TOKEN), DataCheckString(initData))
      parsedUser == parseTelegramUser(HasParam(initData, "user"), GetParam(initData, "user"))
      invalid(error) == [threw |-> FALSE, valid |-> FALSE, hasUser |-> FALSE,
                         user |-> NoUser, error |-> error]
  IN  IF hash = <<>> THEN invalid("No hash in initData")
      ELSE IF calculatedHash # hash THEN invalid("Invalid hash")
      ELSE IF parsedUser.threw THEN [invalid("none") EXCEPT !.threw = TRUE]
      ELSE [invalid("none") EXCEPT !.valid = TRUE, !.hasUser = ~parsedUser.isNull,
                                   !.user = parsedUser.user]

\* verifyTelegramWebAppData: what is thrown inside is caught and answered
\* as {valid: false, error: the message}
verifyTelegramWebAppData(initData) ==
  LET hash == GetParam(initData, "hash")
      calculatedHash == createHmac(SecretKeyOf(BOT_TOKEN), DataCheckString(initData))
      parsedUser == parseTelegramUser(HasParam(initData, "user"), GetParam(initData, "user"))
      invalid(error) == [threw |-> FALSE, valid |-> FALSE, hasUser |-> FALSE,
                         user |-> NoUser, error |-> error]
  IN  IF hash = <<>> THEN invalid("No hash in initData")
      ELSE IF calculatedHash # hash THEN invalid("Invalid hash")
      ELSE IF parsedUser.threw THEN invalid("SyntaxError")
      ELSE [invalid("none") EXCEPT !.valid = TRUE, !.hasUser = ~parsedUser.isNull,
                                   !.user = parsedUser.user]

\* the JSON texts met in the user parameter
Str(v) == Tok("str", v)

Colon == Tok(":", "")

Comma == Tok(",", "")

UserTexts ==
  [ann     |-> <<Tok("{", ""), Str("id"), Colon, Tok("num", "n101"), Comma,
                 Str("username"), Colon, Str("ann"), Comma,
                 Str("first_name"), Colon, Str("Ann"), Tok("}", "")>>,
   bob     |-> <<Tok("{", ""), Str("id"), Colon, Tok("num", "n102"), Tok("}", "")>>,
   \* sub-fields of the wrong type
   named   |-> <<Tok("{", ""), Str("id"), Colon, Tok("num", "n101"), Comma,
                 Str("username"), Colon, Tok("num", "n102"), Comma,
                 Str("first_name"), Colon, Tok("null", ""), Tok("}", "")>>,
   idText  |-> <<Tok("{", ""), Str("id"), Colon, Str("101"), Tok("}", "")>>,
   noId    |-> <<Tok("{", ""), Str("username"), Colon, Str("ann"), Tok("}", "")>>,
   zero    |-> <<Tok("{", ""), Str("id"), Colon, Tok("num", "n0"), Tok("}", "")>>,
   \* texts that are JSON and no object
   empty   |-> <<Tok("{", ""), Tok("}", "")>>,
   null    |-> <<Tok("null", "")>>,
   number  |-> <<Tok("num", "n101")>>,
   \* user= with nothing after it
   blank   |-> <<>>,
   \* texts that are no JSON
   cut     |-> <<Tok("{", ""), Str("id"), Colon, Tok("num", "n101")>>,
   word    |-> <<Tok("word", "ann")>>]

\* the user texts of which parseTelegramUser makes a user, and those that are
\* malformed: no JSON, no object, or an object without a numeric id
GoodUsers == {"ann", "bob", "named", "zero"}

A_Date == Entry("auth_date", <<Str("1700000000")>>)

A_Query == Entry("query_id", <<Str("q1")>>)

A_User(u) == Entry("user", UserTexts[u])

\* the parameters before signing, in the orders they are sent in
BodiesOf(u) ==
  {<<A_Date, A_User(u)>>, <<A_User(u), A_Date>>,
   <<A_User(u), A_Query, A_Date>>, <<A_Query, A_Date, A_User(u)>>}

Sign(token, message) == Entry("hash", createHmac(SecretKeyOf(token), message))

\* how the hash of a payload was made
HashKinds == {"right", "rightFirst", "rightThenWrong", "none", "blank", "unsorted",
              "otherToken", "otherBody", "wrongThenRight"}

Matching == {"right", "rightFirst", "rightThenWrong"}

\* the body that was signed when the payload carries the hash of another one
OtherBody(body) ==
  [i \in 1..Len(body) |-> IF body[i].key = "user" THEN A_User("bob") ELSE body[i]]

Signed(body, kind) ==
  LET right == Sign(BOT_TOKEN, JoinEntries(SortEntries(body)))
      wrong == Sign(S_OtherToken, JoinEntries(SortEntries(body)))
  IN  CASE kind = "right"          -> body \o <<right>>
        [] kind = "rightFirst"     -> <<right>> \o body
        [] kind = "rightThenWrong" -> <<right>> \o body \o <<wrong>>
        [] kind = "wrongThenRight" -> <<wrong>> \o body \o <<right>>
        [] kind = "none"           -> body
        [] kind = "blank"          -> body \o <<Entry("hash", <<>>)>>
        [] kind = "unsorted"       -> body \o <<Sign(BOT_TOKEN, JoinEntries(body))>>
        [] kind = "otherToken"     -> body \o <<wrong>>
        [] OTHER                   -> body \o <<Sign(BOT_TOKEN, JoinEntries(SortEntries(OtherBody(body))))>>

\* the ways of signing that tell a body apart: an unsorted body signed as it
\* comes has not the hash Telegram makes, a sorted one has
KindsFor(body) ==
  HashKinds \ ((IF SortEntries(body) = body THEN {"unsorted"} ELSE {})
               \cup (IF OtherBody(body) = body THEN {"otherBody"} ELSE {}))

PayloadOf(u, kind, body) == [user |-> u, kind |-> kind, initData |-> Signed(body, kind)]

Payloads ==
  UNION { UNION { {PayloadOf(u, kind, body) : kind \in KindsFor(body)} :
                  body \in BodiesOf(u) } :
          u \in DOMAIN UserTexts }

\* verifyTelegramWebAppData is called on its own
Verify(pl) ==
  /\ verified' = [pc |-> "done", payload |-> pl,
                  result |-> verifyTelegramWebAppData(pl.initData)]
  /\ UNCHANGED <<users, videos, nextVideoId, progress, resp, lastSave, orphans, deletes,
                 req, finder, mirrors, canon, rs, parsedUrl, cache, player>>

NextVerify == \E pl \in Payloads : Verify(pl)

SpecVerify == InitWith(DbEmpty) /\ [][NextVerify]_vars

\* the x-telegram-init-data header of a request: raw tells a header that is
\* not sent, one that is empty and one with a text
Header(raw, initData) == [raw |-> raw, initData |-> initData]

\* optionalTelegramAuth falling back to a user of its own when no initData
\* is sent
optionalTelegramAuth_DevUser(header) ==
  LET result == verifyTelegramWebAppData(header.initData)
  IN  IF header.raw # "text" THEN 101
      ELSE IF result.valid /\ result.hasUser THEN result.user.id
      ELSE NoTg

\* optionalTelegramAuth: the id in req.telegramUser as the handler gets it,
\* NoTg when it is not set; the middleware answers nothing itself
optionalTelegramAuth(header) ==
  LET result == verifyTelegramWebAppData(header.initData)
  IN  IF header.raw = "text" /\ result.valid /\ result.hasUser
      THEN result.user.id
      ELSE NoTg

\* telegramAuthMiddleware: rejected when it answers 401 itself; otherwise the
\* id in req.telegramUser as the handler gets it
telegramAuthMiddleware(header) ==
  LET result == verifyTelegramWebAppData(header.initData)
  IN  IF header.raw # "text" THEN [rejected |-> TRUE, tg |-> NoTg]
      ELSE IF ~result.valid THEN [rejected |-> TRUE, tg |-> NoTg]
      ELSE [rejected |-> FALSE, tg |-> IF result.hasUser THEN result.user.id ELSE NoTg]

\* the headers the routes are called with
HeaderNames == {"none", "forged", "tampered", "noId", "zeroUser", "ann", "bob"}

HeaderOf(name) ==
  CASE name = "none"     -> Header("none", <<>>)
    [] name = "forged"   -> Header("text", Signed(<<A_Date, A_User("ann")>>, "otherToken"))
    [] name = "tampered" -> Header("text", Signed(<<A_Date, A_User("ann")>>, "otherBody"))
    [] name = "noId"     -> Header("text", Signed(<<A_Date, A_User("noId")>>, "right"))
    [] name = "zeroUser" -> Header("text", Signed(<<A_Date, A_User("zero")>>, "right"))
    [] name = "ann"      -> Header("text", Signed(<<A_User("ann"), A_Date>>, "right"))
    [] OTHER             -> Header("text", Signed(<<A_Date, A_User("bob")>>, "right"))

\* what each middleware makes of each header
OptionalAuthOf == [name \in HeaderNames |-> optionalTelegramAuth(HeaderOf(name))]

ProtectedAuthOf == [name \in HeaderNames |-> telegramAuthMiddleware(HeaderOf(name))]

\* the middleware has seen the header of the request
Seen(name) == verified' = [pc |-> "auth", header |-> name]

\* telegramAuthMiddleware answers 401 and the handler is not called
Reject(op, id) ==
  /\ resp' = [NoResp EXCEPT !.op = op, !.videoId = id, !.status = 401]
  /\ UNCHANGED <<users, videos, nextVideoId, progress, lastSave, orphans, deletes,
                 req, finder, mirrors, canon, rs, frameVars>>

\* app.use('/api/videos', optionalTelegramAuth, videosRouter)
ListRoute(name) == ListVideos(OptionalAuthOf[name]) /\ Seen(name)

PatchRoute(name, id, isWatched) ==
  PatchVideo(OptionalAuthOf[name], id, isWatched) /\ Seen(name)

DeleteRoute(name, id) == DeleteVideo(OptionalAuthOf[name], id) /\ Seen(name)

\* app.use('/api/progress', telegramAuthMiddleware, progressRouter)
GetProgressRoute(name, id) ==
  /\ IF ProtectedAuthOf[name].rejected THEN Reject("get", id)
     ELSE GetProgress(ProtectedAuthOf[name].tg, id)
  /\ Seen(name)

SaveProgressRoute(name, id, half) ==
  /\ IF ProtectedAuthOf[name].rejected THEN Reject("save", id)
     ELSE SaveProgress(ProtectedAuthOf[name].tg, id, half)
  /\ Seen(name)

\* the positions the player sends here: a negative one and 1.5 s
AuthPositions == {-1, 3}

\* the list and player calls of the mini app, each behind its middleware
NextAuth ==
  \/ \E name \in HeaderNames : ListRoute(name)
  \/ \E name \in HeaderNames, id \in VideoIds, isWatched \in BOOLEAN :
        PatchRoute(name, id, isWatched)
  \/ \E name \in HeaderNames, id \in VideoIds : DeleteRoute(name, id)
  \/ \E name \in HeaderNames, id \in VideoIds : GetProgressRoute(name, id)
  \/ \E name \in HeaderNames, id \in VideoIds, half \in AuthPositions :
        SaveProgressRoute(name, id, half)

SpecAuth == Init /\ [][NextAuth]_vars

\* ------------------------------------------------------------------------
\* URL parser
\* ------------------------------------------------------------------------

Digits == {"0","1","2","3","4","5","6","7","8","9"}

\* [a-f0-9]
HexChars == Digits \cup {"a","b","c","d","e","f"}

\* [a-zA-Z0-9_-]
IdChars ==
  Digits \cup {"_", "-"}
    \cup {"a","b","c","d","e","f","g","h","i","j","k","l","m",
          "n","o","p","q","r","s","t","u","v","w","x","y","z"}
    \cup {"A","B","C","D","E","F","G","H","I","J","K","L","M",
          "N","O","P","Q","R","S","T","U","V","W","X","Y","Z"}

\* the literal text lit stands in s from position i on
MatchAt(s, i, lit) ==
  i + Len(lit) - 1 <= Len(s) /\ SubSeq(s, i, i + Len(lit) - 1) = lit

\* n characters of the class stand in s from position i on
RunOf(s, i, n, class) ==
  i + n - 1 <= Len(s) /\ \A j \in i..(i + n - 1) : s[j] \in class

Least(S) == CHOOSE i \in S : \A j \in S : i <= j

\* url.match(/(?:lit1|lit2|...)([class]{n})/): the capture of the leftmost
\* match, <<>> when there is none
MatchFixed(s, lits, n, class) ==
  LET hit(i, k) == MatchAt(s, i, lits[k]) /\ RunOf(s, i + Len(lits[k]), n, class)
      hits == {i \in 1..Len(s) : \E k \in 1..Len(lits) : hit(i, k)}
      at == Least(hits)
      k == Least({q \in 1..Len(lits) : hit(at, q)})
  IN  IF hits = {} THEN <<>>
      ELSE SubSeq(s, at + Len(lits[k]), at + Len(lits[k]) + n - 1)

\* the position after the longest run of digits that starts at i
DigitsEnd(s, i) ==
  CHOOSE e \in i..(Len(s) + 1) :
     /\ \A j \in i..(e - 1) : s[j] \in Digits
     /\ e = Len(s) + 1 \/ s[e] \notin Digits

\* url.match(/lit(-?\d+)sep(\d+)/): the two captures of the leftmost match
MatchPair(s, lit, sep) ==
  LET from(i) == i + Len(lit)
      digits(i) == IF from(i) <= Len(s) /\ s[from(i)] = "-" THEN from(i) + 1 ELSE from(i)
      mid(i) == DigitsEnd(s, digits(i))
      second(i) == mid(i) + Len(sep)
      hit(i) == /\ MatchAt(s, i, lit)
                /\ mid(i) > digits(i)
                /\ MatchAt(s, mid(i), sep)
                /\ DigitsEnd(s, second(i)) > second(i)
      hits == {i \in 1..Len(s) : hit(i)}
      at == Least(hits)
  IN  IF hits = {} THEN [found |-> FALSE, first |-> <<>>, second |-> <<>>]
      ELSE [found |-> TRUE, first |-> SubSeq(s, from(at), mid(at) - 1),
            second |-> SubSeq(s, second(at), DigitsEnd(s, second(at)) - 1)]

P_Watch == <<"y","o","u","t","u","b","e",".","c","o","m","/","w","a","t","c","h","?","v","=">>
P_Short == <<"y","o","u","t","u",".","b","e","/">>
P_Embed == <<"y","o","u","t","u","b","e",".","c","o","m","/","e","m","b","e","d","/">>
P_Shorts == <<"y","o","u","t","u","b","e",".","c","o","m","/","s","h","o","r","t","s","/">>
P_RutubeVideo == <<"r","u","t","u","b","e",".","r","u","/","v","i","d","e","o","/">>
P_RutubeEmbed == <<"r","u","t","u","b","e",".","r","u","/","p","l","a","y","/","e","m","b","e","d","/">>
P_VkVideo == <<"v","k",".","c","o","m","/","v","i","d","e","o">>
P_VkExt == <<"v","k",".","c","o","m","/","v","i","d","e","o","_","e","x","t",".","p","h","p","?","o","i","d","=">>
P_VkAndId == <<"&","i","d","=">>
P_VkAlt == <<"v","k","v","i","d","e","o",".","r","u","/","v","i","d","e","o">>
P_Underscore == <<"_">>

NoParsed == [found |-> FALSE, platform |-> "none", externalId |-> <<>>, url |-> <<>>]

Parsed(platform, externalId, url) ==
  [found |-> TRUE, platform |-> platform, externalId |-> externalId, url |-> url]

\* parseYouTubeUrl without its second pattern
parseYouTubeUrl_NoShorts(url) ==
  LET first == MatchFixed(url, <<P_Watch, P_Short, P_Embed>>, 11, IdChars)
  IN  IF first # <<>> THEN Parsed("youtube", first, <<"h","t","t","p","s",":","/","/","y","o","u","t","u","b","e",".","c","o","m","/","w","a","t","c","h","?","v","=">> \o first)
      ELSE NoParsed

parseYouTubeUrl(url) ==
  LET first == MatchFixed(url, <<P_Watch, P_Short, P_Embed>>, 11, IdChars)
      second == MatchFixed(url, <<P_Shorts>>, 11, IdChars)
  IN  IF first # <<>> THEN Parsed("youtube", first, <<"h","t","t","p","s",":","/","/","y","o","u","t","u","b","e",".","c","o","m","/","w","a","t","c","h","?","v","=">> \o first)
      ELSE IF second # <<>> THEN Parsed("youtube", second, <<"h","t","t","p","s",":","/","/","y","o","u","t","u","b","e",".","c","o","m","/","w","a","t","c","h","?","v","=">> \o second)
      ELSE NoParsed

parseRutubeUrl(url) ==
  LET first == MatchFixed(url, <<P_RutubeVideo>>, 32, HexChars)
      second == MatchFixed(url, <<P_RutubeEmbed>>, 32, HexChars)
      made(id) == Parsed("rutube", id, <<"h","t","t","p","s",":","/","/","r","u","t","u","b","e",".","r","u","/","v","i","d","e","o","/">> \o id \o <<"/">>)
  IN  IF first # <<>> THEN made(first)
      ELSE IF second # <<>> THEN made(second)
      ELSE NoParsed

parseVkVideoUrl(url) ==
  LET first == MatchPair(url, P_VkVideo, P_Underscore)
      second == MatchPair(url, P_VkExt, P_VkAndId)
      third == MatchPair(url, P_VkAlt, P_Underscore)
      made(m) == Parsed("vk", m.first \o <<"_">> \o m.second,
                        <<"h","t","t","p","s",":","/","/","v","k",".","c","o","m","/","v","i","d","e","o">> \o m.first \o <<"_">> \o m.second)
  IN  IF first.found THEN made(first)
      ELSE IF second.found THEN made(second)
      ELSE IF third.found THEN made(third)
      ELSE NoParsed

\* parseVideoUrl: YouTube, then Rutube, then VK
parseVideoUrl(url) ==
  IF parseYouTubeUrl(url).found THEN parseYouTubeUrl(url)
  ELSE IF parseRutubeUrl(url).found THEN parseRutubeUrl(url)
  ELSE parseVkVideoUrl(url)

\* what stands before the host, and after the id, in the links sent
UrlStarts == {<<"h","t","t","p","s",":","/","/">>, <<"h","t","t","p","s",":","/","/","w","w","w",".">>, <<"h","t","t","p",":","/","/","m",".">>, <<>>}

UrlEnds == {<<>>, <<"&","t","=","1","0">>, <<"/">>}

YouTubeIds == {<<"d","Q","w","4","w","9","W","g","X","c","Q">>, <<"a","-","B","_","c","1","D","2","e","3","F">>}

RutubeIds == {<<"0","1","2","3","4","5","6","7","8","9","a","b","c","d","e","f","0","1","2","3","4","5","6","7","8","9","a","b","c","d","e","f">>, <<"f","f","e","e","d","d","c","c","b","b","a","a","9","9","8","8","7","7","6","6","5","5","4","4","3","3","2","2","1","1","0","0">>}

VkOwners == {<<"-","1","2","3">>, <<"4","5">>}

VkIds == {<<"4","5","6">>, <<"7">>}

\* the links of a video in every shape its platform has: video is the
\* platform and the id of the video, text the link
Link(platform, id, shape, text) ==
  [platform |-> platform, id |-> id, shape |-> shape, text |-> text]

YouTubeLinks ==
  {Link("youtube", id, shape[1], start \o shape[2] \o id \o end) :
     id \in YouTubeIds, start \in UrlStarts, end \in UrlEnds,
     shape \in {<<"watch", P_Watch>>, <<"short", P_Short>>,
                <<"embed", P_Embed>>, <<"shorts", P_Shorts>>}}

RutubeLinks ==
  {Link("rutube", id, shape[1], start \o shape[2] \o id \o end) :
     id \in RutubeIds, start \in UrlStarts, end \in UrlEnds,
     shape \in {<<"video", P_RutubeVideo>>, <<"embed", P_RutubeEmbed>>}}

VkLinks ==
  {Link("vk", owner \o <<"_">> \o id, shape[1],
        start \o shape[2] \o owner \o shape[3] \o id \o end) :
     owner \in VkOwners, id \in VkIds, start \in UrlStarts, end \in {<<>>, <<"&","t","=","1","0">>},
     shape \in {<<"direct", P_VkVideo, P_Underscore>>, <<"ext", P_VkExt, P_VkAndId>>,
                <<"alt", P_VkAlt, P_Underscore>>}}

\* texts that are no link of a video: an id that is too short or has a
\* character out of its class, a host that is none of the three
OtherLinks ==
  {Link("none", <<>>, "other", text) :
     text \in {<<"h","t","t","p","s",":","/","/","y","o","u","t","u","b","e",".","c","o","m","/","w","a","t","c","h","?","v","=","t","o","o","S","h","o","r","t","1","0">>, <<"h","t","t","p","s",":","/","/","r","u","t","u","b","e",".","r","u","/","v","i","d","e","o","/","0","1","2","3","4","5","6","7","8","9","A","B","C","D","E","F","0","1","2","3","4","5","6","7","8","9","A","B","C","D","E","F","/">>, <<"h","t","t","p","s",":","/","/","v","k",".","c","o","m","/","v","i","d","e","o","?","z","=","1">>, <<"h","t","t","p","s",":","/","/","e","x","a","m","p","l","e",".","c","o","m","/","v","i","d","e","o","-","1","_","2">>, <<"h","t","t","p","s",":","/","/","v","k",".","c","o","m","/","v","i","d","e","o","s","-","1","_","2">>, <<>>}}

SupportedLinks == YouTubeLinks \cup RutubeLinks \cup VkLinks

\* parseVideoUrl is called on its own
Parse(link) ==
  /\ parsedUrl' = [pc |-> "done", link |-> link, result |-> parseVideoUrl(link.text)]
  /\ UNCHANGED <<users, videos, nextVideoId, progress, resp, lastSave, orphans, deletes,
                 req, finder, mirrors, canon, rs, verified, cache, player>>

NextParse == \E link \in SupportedLinks \cup OtherLinks : Parse(link)

SpecParse == InitWith(DbEmpty) /\ [][NextParse]_vars

\* ------------------------------------------------------------------------
\* The in-memory caches: the thumbnail proxy and the stream URLs.  A Map is
\* kept as the sequence of its entries in insertion order.
\* ------------------------------------------------------------------------

MapHas(m, key) == \E i \in 1..Len(m) : m[i].key = key

MapGet(m, key) == m[CHOOSE i \in 1..Len(m) : m[i].key = key]

MapDelete(m, key) == SelectSeq(m, LAMBDA e : e.key # key)

\* Map.prototype.set: the entry of a key that is there is replaced where it
\* stands, a new key goes to the end
MapSet(m, entry) ==
  IF MapHas(m, entry.key)
  THEN [i \in 1..Len(m) |-> IF m[i].key = entry.key THEN entry ELSE m[i]]
  ELSE Append(m, entry)

\* the thumbnail links asked for, all of allowed hosts, and the video ids
CacheKeys == <<"k1", "k2", "k3", "k4">>

ThumbUrls == {CacheKeys[i] : i \in 1..(MAX_CACHE_ENTRIES + 1)}

StreamIds == {CacheKeys[i] : i \in 1..(MAX_CACHE_ENTRIES + 1)}

\* what the upstream of the thumbnail does, and that of the stream
ThumbOutcomes == {"image", "notOk", "notImage", "throw"}

StreamStatuses == {200, 403, 410}

\* the store of the thumbnail route: evict the first key when full, then set
ThumbStore(m, key, now) ==
  MapSet(IF Len(m) >= MAX_CACHE_ENTRIES THEN MapDelete(m, m[1].key) ELSE m,
         [key |-> key, expires |-> now + CACHE_TTL])

\* GET /api/proxy/thumbnail?url=target, from the cache check on
Thumbnail(target, outcome) ==
  LET m == cache.thumb
      fresh == MapHas(m, target) /\ MapGet(m, target).expires > cache.now
      serve == [NoServe EXCEPT !.route = "thumbnail", !.key = target]
  IN
  /\ cache' =
       IF fresh
       THEN [cache EXCEPT !.last = [serve EXCEPT !.status = 200, !.hit = TRUE,
                                      !.left = MapGet(m, target).expires - cache.now]]
       ELSE IF outcome = "image"
       THEN [cache EXCEPT
               !.thumb = ThumbStore(m, target, cache.now),
               !.last = [serve EXCEPT !.status = 200, !.fetches = 1,
                                      !.evicted = IF Len(m) >= MAX_CACHE_ENTRIES
                                                  THEN m[1].key ELSE ""]]
       ELSE [cache EXCEPT !.last = [serve EXCEPT !.fetches = 1,
                                      !.status = CASE outcome = "notOk" -> 404
                                                   [] outcome = "notImage" -> 415
                                                   [] OTHER -> 502]]
  /\ UNCHANGED <<users, videos, nextVideoId, progress, resp, lastSave, orphans, deletes,
                 req, finder, mirrors, canon, rs, verified, parsedUrl, player>>

\* GET /api/youtube/stream/:videoId: getStreamUrl, then the fetch of the URL.
\* ytdlp: yt-dlp printed a URL; status: what the CDN answered
Stream(videoId, ytdlp, status) ==
  LET m == cache.urls
      fresh == MapHas(m, videoId) /\ MapGet(m, videoId).expires > cache.now
      serve == [NoServe EXCEPT !.route = "stream", !.key = videoId]
      \* getStreamUrl
      resolved == IF fresh THEN m
                  ELSE MapSet(m, [key |-> videoId, expires |-> cache.now + CACHE_TTL])
      served == [serve EXCEPT !.hit = fresh, !.fetches = 1,
                              !.resolves = IF fresh THEN 0 ELSE 1,
                              !.left = IF fresh THEN MapGet(m, videoId).expires - cache.now
                                       ELSE 0]
  IN
  /\ cache' =
       IF ~fresh /\ ~ytdlp
       THEN \* getStreamUrl throws: 502 Stream unavailable
            [cache EXCEPT !.last = [serve EXCEPT !.status = 502, !.resolves = 1]]
       ELSE IF status \in {403, 410}
       THEN \* urlCache.delete(videoId); 502 Stream URL expired, please retry
            [cache EXCEPT !.urls = MapDelete(resolved, videoId),
                          !.last = [served EXCEPT !.status = 502, !.evicted = videoId]]
       ELSE [cache EXCEPT !.urls = resolved,
                          !.last = [served EXCEPT !.status = status]]
  /\ UNCHANGED <<users, videos, nextVideoId, progress, resp, lastSave, orphans, deletes,
                 req, finder, mirrors, canon, rs, verified, parsedUrl, player>>

\* time passes
Tick ==
  /\ cache.now < MaxTime
  /\ cache' = [cache EXCEPT !.now = @ + 1]
  /\ UNCHANGED <<users, videos, nextVideoId, progress, resp, lastSave, orphans, deletes,
                 req, finder, mirrors, canon, rs, verified, parsedUrl, player>>

\* the two Maps are separate objects and no handler touches both: each is
\* followed on its own
NextThumbnail ==
  \/ \E target \in ThumbUrls, outcome \in ThumbOutcomes : Thumbnail(target, outcome)
  \/ Tick

NextStream ==
  \/ \E videoId \in StreamIds, ytdlp \in BOOLEAN, status \in StreamStatuses :
        Stream(videoId, ytdlp, status)
  \/ Tick

SpecThumbnail == InitWith(DbEmpty) /\ [][NextThumbnail]_vars

SpecStream == InitWith(DbEmpty) /\ [][NextStream]_vars

\* ------------------------------------------------------------------------
\* The player of the mini app.  App mounts one Player for the selected video
\* over an overlay whose click closes it; a handler is taken together with
\* the render and the effects that follow it.
\* ------------------------------------------------------------------------

\* what getProgress may answer: no row, or a row with a position
FetchedPositions == {NoPos, 0, 9, 10, 11}

PlayerVideos == {1, 2}

\* p && p.position_seconds >= MIN_RESUME_SECONDS
NeedsPrompt_Never(p) == FALSE

NeedsPrompt(p) == p # NoPos /\ p >= MIN_RESUME_SECONDS

\* pos >= MIN_RESUME_SECONDS, the guard of the periodic and the final save
WorthSaving_Always(pos) == TRUE

WorthSaving(pos) == pos >= MIN_RESUME_SECONDS

\* the fetch of the mount has succeeded or failed and, where the fetched
\* position asks for the prompt, the user has answered it
Settled(pl) ==
  /\ pl.fetch \in {"ok", "failed"}
  /\ (pl.fetch = "ok" /\ pl.fetched >= MIN_RESUME_SECONDS) => pl.answered # "none"

Save(pl, kind, pos) == [kind |-> kind, video |-> pl.video, pos |-> pos, settled |-> Settled(pl)]

\* the effect of [playbackReady, startFrom]: elapsedRef takes startFrom and
\* both intervals start
StartTimers(pl) ==
  IF pl.playbackReady THEN [pl EXCEPT !.elapsed = pl.startFrom, !.timers = TRUE] ELSE pl

\* handleVideoClick: setSelectedVideo(video) mounts the player, whose mount
\* effects call getProgress
OpenVideo(video) ==
  /\ player.pc = "closed"
  /\ player' = [PlayerClosed EXCEPT !.pc = "open", !.video = video, !.fetch = "pending",
                                    !.late = player.late, !.sent = player.sent]

\* getProgress resolves with res.progress = p
FetchOk(p) ==
  /\ player.pc = "open" /\ player.fetch = "pending"
  /\ player' = StartTimers(
       IF NeedsPrompt(p)
       THEN [player EXCEPT !.fetch = "ok", !.fetched = p, !.savedProgress = p,
                           !.showResumeModal = TRUE]
       ELSE [player EXCEPT !.fetch = "ok", !.fetched = p, !.playbackReady = TRUE])

\* getProgress rejects
FetchFail ==
  /\ player.pc = "open" /\ player.fetch = "pending"
  /\ player' = StartTimers([player EXCEPT !.fetch = "failed", !.playbackReady = TRUE])

\* the answer of a call whose effect was cleaned up: if (cancelled) return
LateResponse ==
  /\ player.late
  /\ player' = [player EXCEPT !.late = FALSE]

handleResumeYes ==
  /\ player.pc = "open" /\ player.showResumeModal
  /\ player' = StartTimers(
       [player EXCEPT !.startFrom = IF player.savedProgress = NoPos THEN 0
                                    ELSE player.savedProgress,
                      !.showResumeModal = FALSE, !.playbackReady = TRUE,
                      !.answered = "yes"])

handleResumeNo ==
  /\ player.pc = "open" /\ player.showResumeModal
  /\ LET answered == [player EXCEPT !.startFrom = 0, !.showResumeModal = FALSE,
                                    !.playbackReady = TRUE, !.answered = "no"]
     IN player' = StartTimers([answered EXCEPT !.sent = Save(answered, "restart", 0)])

\* the interval of one second: elapsedRef.current += 1
ElapsedTick ==
  /\ player.timers /\ player.elapsed < MaxElapsed
  /\ player' = [player EXCEPT !.elapsed = @ + 1]

\* the interval of SAVE_INTERVAL_MS
SaveTick ==
  /\ player.timers
  /\ WorthSaving(player.elapsed)
  /\ player' = [player EXCEPT !.sent = Save(player, "periodic", player.elapsed)]

\* handleClosePlayer: the player unmounts; its cleanups clear the timers,
\* send the final position and cancel the fetch
ClosePlayer ==
  /\ player.pc = "open"
  /\ player' = [PlayerClosed EXCEPT
                  !.late = player.late \/ player.fetch = "pending",
                  !.sent = IF WorthSaving(player.elapsed)
                           THEN Save(player, "close", player.elapsed)
                           ELSE player.sent]

NextPlayer ==
  /\ \/ \E video \in PlayerVideos : OpenVideo(video)
     \/ \E p \in FetchedPositions : FetchOk(p)
     \/ FetchFail
     \/ LateResponse
     \/ handleResumeYes
     \/ handleResumeNo
     \/ ElapsedTick
     \/ SaveTick
     \/ ClosePlayer
  /\ UNCHANGED <<users, videos, nextVideoId, progress, resp, lastSave, orphans, deletes,
                 req, finder, mirrors, canon, rs, verified, parsedUrl, cache>>

SpecPlayer == InitWith(DbEmpty) /\ [][NextPlayer]_vars

\* ------------------------------------------------------------------------
\* Properties of resolve (under SpecResolve)
\* ------------------------------------------------------------------------


\* the display name of a platform
PlatformName(platform) ==
  IF platform = "youtube" THEN S_YouTube
  ELSE IF platform = "rutube" THEN S_Rutube
  ELSE S_VK

\* every network call of the finished run failed: the fetch rejected (network
\* error or timeout), the status was not 2xx, or the body was malformed
AllCallsFailed ==
  /\ rs.pc \in {"returned", "threw"}
  /\ rs.got # <<>>
  /\ \A i \in 1..Len(rs.got) : rs.got[i].net \in FailedNets

\* C1 as stated: resolve never throws, and when every strategy fails it
\* returns title "<Platform> Video", channel "<Platform>", duration null.
C1_StubNamesThePlatform ==
  /\ rs.pc # "threw"
  /\ AllCallsFailed =>
       /\ rs.result.kind = "info"
       /\ rs.result.title = PlatformName(rs.platform) \o <<" ","V","i","d","e","o">>
       /\ rs.result.channelName = PlatformName(rs.platform)
       /\ rs.result.duration = NoDuration

\* C1, amended: resolve never throws or rejects and always returns a metadata
\* object; when every call fails the object has duration null, title
\* "<Platform> Video", and as channel "YouTube" for YouTube, "Unknown" for
\* Rutube and "VK Video" for VK.
C1_NeverThrowsAndStub ==
  /\ rs.pc # "threw"
  /\ rs.pc = "returned" => rs.result.kind = "info"
  /\ AllCallsFailed =>
       /\ rs.result.kind = "info"
       /\ rs.result.title = PlatformName(rs.platform) \o <<" ","V","i","d","e","o">>
       /\ rs.result.channelName =
            (IF rs.platform = "youtube" THEN <<"Y","o","u","T","u","b","e">>
             ELSE IF rs.platform = "rutube" THEN <<"U","n","k","n","o","w","n">>
             ELSE <<"V","K"," ","V","i","d","e","o">>)
       /\ rs.result.duration = NoDuration

\* a VK run with the token set has returned after its three calls all failed
C1_Witness ==
  /\ rs.pc = "returned"
  /\ rs.platform = "vk"
  /\ rs.token
  /\ Len(rs.got) = 3
  /\ AllCallsFailed

\* the titles that stand for "no real title": the stubs' and VK's brand names
PlaceholderTitles ==
  {S_YouTubeVideo, S_RutubeVideo, S_VKVideo, S_UnknownVideo, S_VK, S_VKontakte}

\* C2: on every platform resolve returns a missing, empty or placeholder
\* title only as part of the final stub, reached after every strategy failed;
\* a successful result has a present, non-empty, non-placeholder title.
C2_TitleRequiredForSuccess ==
  rs.pc = "returned" =>
    \/ /\ Trim(rs.result.title) # <<>>
       /\ rs.result.title \notin PlaceholderTitles
    \/ /\ rs.result.title = PlatformName(rs.platform) \o <<" ","V","i","d","e","o">>
       /\ \A i \in 1..Len(rs.got) :
            \/ rs.got[i].net \in FailedNets
            \/ ~rs.got[i].title.some
            \/ Trim(rs.got[i].title.s) = <<>>
            \/ rs.got[i].title.s \in PlaceholderTitles
            \/ rs.got[i].error

\* ------------------------------------------------------------------------
\* Properties of the intake route and the finder (under SpecIntake)
\* ------------------------------------------------------------------------

\* a and b are two answered requests of one owner for one link, a the earlier
\* one to arrive, and no row was deleted
TwoForOneLink(a, b) ==
  /\ a < b
  /\ req[a].pc = "done" /\ req[b].pc = "done"
  /\ req[a].status \in {201, 409} /\ req[b].status \in {201, 409}
  /\ req[a].tg = req[b].tg
  /\ req[a].platform = req[b].platform
  /\ req[a].externalId = req[b].externalId
  /\ deletes = 0

\* the rows of the owner and link of request r
RowsOfRequest(r) ==
  {id \in DOMAIN videos : /\ req[r].tg \in DOMAIN users
                          /\ videos[id].user_id = users[req[r].tg]
                          /\ videos[id].platform = req[r].platform
                          /\ videos[id].external_id = req[r].externalId}

\* C3: a link submitted again after its first intake completed (answered
\* "created", the row still there) is answered 409 "already queued" without
\* being resolved, and the owner has exactly one row for it.
C3_SecondIsAlreadyQueued ==
  \A b \in ReqIds :
    (req[b].pc # "idle" /\ req[b].after # {}) =>
      /\ req[b].pc = "done"
      /\ req[b].status = 409
      /\ req[b].rows = 1

\* a second intake of a link has been answered 409 after the first was
\* answered 201
C3_Witness ==
  \E a, b \in ReqIds :
    /\ a \in req[b].after
    /\ req[a].status = 201
    /\ req[b].status = 409
    /\ Cardinality(RowsOfRequest(b)) = 1

\* C4 as stated: of two intakes of one link by one owner, in every
\* interleaving, exactly one is answered "created" and the other "already
\* queued", and exactly one row results.
C4_ExactlyOneCreated ==
  \A a, b \in ReqIds :
    TwoForOneLink(a, b) =>
      /\ Cardinality(RowsOfRequest(a)) = 1
      /\ {req[a].status, req[b].status} = {201, 409}

\* C4, amended: exactly one row results in every interleaving; a request that
\* arrives after the other was answered "created" is answered "already
\* queued"; a request that arrives while the other awaits its resolution,
\* no row of the link being there yet, is answered "created" too, and both
\* answers carry the same row.
C4_OneRowBothMayBeCreated ==
  \A a, b \in ReqIds :
    TwoForOneLink(a, b) =>
      /\ Cardinality(RowsOfRequest(a)) = 1
      /\ req[b].after # {} => req[b].status = 409
      /\ (/\ req[b].during # {}
          /\ req[b].after = {}
          /\ \A m \in mirrors : m.id \notin RowsOfRequest(b))
           => req[b].status = 201
      /\ (req[a].status = 201 /\ req[b].status = 201) =>
           /\ req[a].videoId = req[b].videoId
           /\ req[b].rows = 1

\* two intakes of one link were both answered "created", the second having
\* arrived while the first awaited its resolution
C4_Witness ==
  \E a, b \in ReqIds :
    /\ TwoForOneLink(a, b)
    /\ a \in req[b].during
    /\ req[a].status = 201 /\ req[b].status = 201
    /\ req[a].videoId = req[b].videoId

\* C10: every row a finder run inserted (an accepted candidate the owner did
\* not have) has, while its root exists, parent_id equal to the id of the root
\* that started the run, and the owner of that root.
C10_MirrorsAreChildrenOfRoot ==
  \A m \in mirrors :
    (m.id \in DOMAIN videos /\ m.root \in DOMAIN videos) =>
      /\ videos[m.id].parent_id = m.root
      /\ videos[m.id].user_id = videos[m.root].user_id

\* ------------------------------------------------------------------------
\* Properties of the progress routes (under Spec)
\* ------------------------------------------------------------------------

\* the telegram id of a user
TgOf(userId) == CHOOSE tg \in DOMAIN users : users[tg] = userId

\* the families that exist and were saved to: <<owner, root>>
SavedFamilies ==
  {k \in DOMAIN lastSave : k[2] \in DOMAIN videos /\ videos[k[2]].parent_id = NoId}

\* C5 as stated: after a save of position p through any member of a family,
\* a read by the owner through any member returns p.
C5_ReadReturnsSubmitted ==
  \A k \in SavedFamilies : \A m \in Family(k[2]) :
    2 * ReadProgress(TgOf(k[1]), m) = lastSave[k].half

\* C5, amended: after a save of position p through any member of a family,
\* a read by the owner through any member returns the whole seconds of p
\* (p rounded down), until the next save to the family.
C5_ReadReturnsFloor ==
  \A k \in SavedFamilies : \A m \in Family(k[2]) :
    /\ ReadProgress(TgOf(k[1]), m) >= 0
    /\ 2 * ReadProgress(TgOf(k[1]), m) \in {lastSave[k].half, lastSave[k].half - 1}

\* 1.5 s was saved through the child and the root has just been read
C5_Witness ==
  /\ <<1, 1>> \in SavedFamilies
  /\ 2 \in Family(1)
  /\ lastSave[<<1, 1>>] = [half |-> 3, via |-> 2]
  /\ resp = [op |-> "get", tg |-> 101, videoId |-> 1, status |-> 200,
             position |-> 1, stored |-> TRUE]

\* C6: every Progress row is keyed by a family root: its video exists and
\* has no parent_id or one that names no row; never by a child whose root exists.
C6_ProgressKeyedByRoot ==
  \A k \in DOMAIN progress :
    /\ k[2] \in DOMAIN videos
    /\ \/ videos[k[2]].parent_id = NoId
       \/ videos[k[2]].parent_id \notin DOMAIN videos

\* a save through the child, whose root exists, has been stored
C6_Witness ==
  /\ 2 \in DOMAIN videos /\ videos[2].parent_id = 1 /\ 1 \in DOMAIN videos
  /\ <<1, 1>> \in DOMAIN lastSave /\ lastSave[<<1, 1>>].via = 2
  /\ <<1, 1>> \in DOMAIN progress
  /\ resp.op = "save" /\ resp.videoId = 2 /\ resp.stored

\* the Progress rows that a step creates or changes
Written ==
  {k \in DOMAIN progress' : k \notin DOMAIN progress \/ progress'[k] # progress[k]}

\* C7: a save naming a video the caller does not own (someone else's or
\* none) creates or changes no Progress row: every step that writes a row is
\* a save whose caller owns the id sent, and it writes the one row of the
\* caller keyed by the family root of that id.
C7_OnlyOwnedSavesWrite ==
  [][Written # {} =>
       /\ resp'.op = "save" /\ resp'.status = 200
       /\ resp'.tg \in DOMAIN users
       /\ resp'.videoId \in DOMAIN videos
       /\ videos[resp'.videoId].user_id = users[resp'.tg]
       /\ Written = {<<users[resp'.tg], k>> : k \in RootsOf(resp'.videoId)}]_vars

\* the second user has just saved on the first user's child and got the
\* synthetic answer; the rows hold nothing of the second user
C7_Witness ==
  /\ resp = [op |-> "save", tg |-> 102, videoId |-> 2, status |-> 200,
             position |-> 1, stored |-> FALSE]
  /\ {1, 2} \subseteq DOMAIN videos
  /\ videos[2].parent_id = 1
  /\ <<1, 1>> \in DOMAIN progress
  /\ \A k \in DOMAIN progress : k[1] # 2

\* the position stored for a user under a video id, NoPos when there is none
StoredUnder(userId, videoId) ==
  IF <<userId, videoId>> \in DOMAIN progress THEN progress[<<userId, videoId>>]
  ELSE NoPos

\* C8: once its root is deleted, a former child B is read under its own id
\* (the position stored under B, null when there is none), and a save
\* through B is stored under B.
C8_OrphanUsesOwnId ==
  \A b \in orphans :
    /\ b \in DOMAIN videos
    /\ ReadProgress(TgOf(videos[b].user_id), b) = StoredUnder(videos[b].user_id, b)
    /\ <<videos[b].user_id, b>> \in DOMAIN lastSave =>
         2 * StoredUnder(videos[b].user_id, b) \in
            {lastSave[<<videos[b].user_id, b>>].half,
             lastSave[<<videos[b].user_id, b>>].half - 1}

\* the root was deleted, 1.5 s was saved through the former child, and the
\* child has just been read
C8_Witness ==
  /\ orphans = {2}
  /\ 1 \notin DOMAIN videos
  /\ <<1, 2>> \in DOMAIN lastSave /\ lastSave[<<1, 2>>] = [half |-> 3, via |-> 2]
  /\ progress[<<1, 2>>] = 1
  /\ resp = [op |-> "get", tg |-> 101, videoId |-> 2, status |-> 200,
             position |-> 1, stored |-> TRUE]

\* ------------------------------------------------------------------------
\* Properties of getCanonicalId (under SpecCanon)
\* ------------------------------------------------------------------------

\* C9: canonicalId(v) is v when v's row has no parent_id, the parent's id
\* when the row has one and the parent row exists, and v when the parent_id
\* names a row that does not exist.
C9_CanonicalIdCases ==
  canon.videoId \in DOMAIN videos =>
    LET parent == videos[canon.videoId].parent_id
    IN  /\ parent = NoId => canon.id = canon.videoId
        /\ (parent # NoId /\ parent \in DOMAIN videos) => canon.id = parent
        /\ (parent # NoId /\ parent \notin DOMAIN videos) => canon.id = canon.videoId

\* getCanonicalId was called for a row whose parent is gone
C9_Witness ==
  /\ canon.videoId \in DOMAIN videos
  /\ videos[canon.videoId].parent_id # NoId
  /\ videos[canon.videoId].parent_id \notin DOMAIN videos
  /\ canon.id = canon.videoId

\* ------------------------------------------------------------------------
\* Properties of the videos table (under SpecMirrors)
\* ------------------------------------------------------------------------

\* C11: in every reachable state, whatever intakes, finder runs and deletes
\* have run and however they interleaved, every video with a parent_id has
\* its parent in the table, owned by the same user and itself without a
\* parent_id.
C11_ParentIsOwnRoot ==
  \A id \in DOMAIN videos :
     videos[id].parent_id # NoId =>
       /\ videos[id].parent_id \in DOMAIN videos
       /\ videos[videos[id].parent_id].user_id = videos[id].user_id
       /\ videos[videos[id].parent_id].parent_id = NoId

\* a child still has its root while a finder run of a later intake has
\* inserted a row, and another root has been deleted
C11_Witness ==
  /\ \E id \in DOMAIN videos : videos[id].parent_id # NoId
  /\ mirrors # {}
  /\ deletes > 0

\* ------------------------------------------------------------------------
\* Properties of the videos table under intakes and finder runs (SpecIntake)
\* ------------------------------------------------------------------------

\* the rows of vs with the owner and the key of the candidate alt
RowsLike(vs, userId, alt) ==
  {id \in DOMAIN vs : /\ vs[id].user_id = userId
                       /\ vs[id].platform = alt.platform
                       /\ vs[id].external_id = alt.externalId}

\* C12: in every reachable state no two rows have the same (owner, platform,
\* external_id); and the step that ends a finder run leaves every row
\* unchanged that the owner already had for an accepted candidate, and adds
\* no second row for it.
C12_OneRowPerKey ==
  /\ [](\A a, b \in DOMAIN videos :
          (/\ videos[a].user_id = videos[b].user_id
           /\ videos[a].platform = videos[b].platform
           /\ videos[a].external_id = videos[b].external_id) => a = b)
  /\ [][\A r \in ReqIds :
          (finder[r].pc = "searching" /\ finder'[r].pc = "done") =>
            \A d \in finder'[r].decisions :
               (d.accepted /\ RowsLike(videos, finder[r].userId, d.alt) # {}) =>
                 /\ RowsLike(videos', finder[r].userId, d.alt)
                      = RowsLike(videos, finder[r].userId, d.alt)
                 /\ \A id \in RowsLike(videos, finder[r].userId, d.alt) :
                      videos'[id] = videos[id]]_vars

\* a finder run has ended after it met an accepted candidate for the Rutube
\* link its owner had queued before; the row still has the title of its intake
C12_Witness ==
  \E r \in ReqIds :
     /\ finder[r].pc = "done"
     /\ \E id \in finder[r].skipped :
          /\ id \in DOMAIN videos
          /\ videos[id].platform = "rutube"
          /\ videos[id].title = S_Song
     /\ \E d \in finder[r].decisions :
          d.accepted /\ d.alt.externalId = "r1" /\ d.alt.title = S_SongLive

\* ------------------------------------------------------------------------
\* Properties of one finder run (under SpecFinder)
\* ------------------------------------------------------------------------

\* the number x is at least p/q
AtLeast(x, p, q) == x.n * q > p * x.d \/ (x.n * q = p * x.d /\ ~x.below)

\* C13: the finder accepts a scored candidate if and only if its channel
\* similarity is at least 0.45 or its title overlap is at least 0.4, the
\* bounds included; with no delete since, every accepted candidate has a row
\* and no rejected one has been given a row.
C13_GateIsInclusiveOr ==
  \A r \in ReqIds : \A d \in finder[r].decisions :
     /\ d.accepted <=> (AtLeast(d.chSim, 45, 100) \/ AtLeast(d.titleOvr, 4, 10))
     /\ (deletes = 0 /\ d.accepted) => RowsLike(videos, finder[r].userId, d.alt) # {}
     /\ (~d.accepted /\ d.alt.externalId # RutubeLink.externalId) =>
          RowsLike(videos, finder[r].userId, d.alt) = {}

\* one run has accepted a candidate at channel similarity 9/20 with its title
\* overlap under 0.4, accepted one at title overlap 2/5 with its channel
\* similarity under 0.45, and rejected one under both
C13_Witness ==
  \E r \in ReqIds :
     /\ finder[r].pc = "done"
     /\ \E d \in finder[r].decisions :
          /\ d.accepted /\ ~d.chSim.below
          /\ d.chSim.n * 100 = 45 * d.chSim.d
          /\ d.titleOvr.n * 10 < 4 * d.titleOvr.d
     /\ \E d \in finder[r].decisions :
          /\ d.accepted
          /\ d.titleOvr.n * 10 = 4 * d.titleOvr.d
          /\ d.chSim.n * 100 < 45 * d.chSim.d
     /\ \E d \in finder[r].decisions :
          /\ ~d.accepted
          /\ d.titleOvr.n * 10 < 4 * d.titleOvr.d
          /\ d.chSim.n * 100 < 45 * d.chSim.d

\* the titles resolveCandidate turns away
GENERIC_TITLES == {S_VKVideo, S_RutubeVideo, S_Unknown, S_Rutube}

\* C14: no candidate whose title is a generic or placeholder title is accepted
\* by a finder run, and no row a finder run created carries such a title.
C14_NoGenericTitleAccepted ==
  \A r \in ReqIds :
     /\ \A d \in finder[r].decisions :
          d.accepted => d.alt.title \notin GENERIC_TITLES \cup PlaceholderTitles
     /\ \A m \in mirrors :
          m.id \in DOMAIN videos =>
             videos[m.id].title \notin GENERIC_TITLES \cup PlaceholderTitles

\* ------------------------------------------------------------------------
\* Properties of the resolver chains (under SpecResolve)
\* ------------------------------------------------------------------------

\* xs is the beginning of ys
IsPrefix(xs, ys) == Len(xs) <= Len(ys) /\ SubSeq(ys, 1, Len(xs)) = xs

\* C15: the calls of a VK resolution are a beginning of API, crawler page,
\* desktop page (of crawler page, desktop page without the credential, with
\* no API call at all); every call but the last one ended in a failure of its
\* strategy; the resolution returns the result of the last call when that
\* one succeeded, and the stub only after all of them failed.
C15_VkOneAtATimeInOrder ==
  (rs.platform = "vk" /\ rs.pc # "idle") =>
     /\ Len(rs.got) = Len(rs.calls)
     /\ IsPrefix(rs.calls, IF rs.token THEN <<"api", "googlebot", "desktop">>
                                       ELSE <<"googlebot", "desktop">>)
     /\ \A k \in 1..(Len(rs.calls) - 1) : VkApply(rs.calls[k], rs.got[k]).kind = "null"
     /\ rs.pc = "returned" =>
          LET n == Len(rs.calls)
              last == VkApply(rs.calls[n], rs.got[n])
          IN  /\ n >= 1
              /\ last.kind = "info" => rs.result = last
              /\ last.kind # "info" =>
                   /\ rs.result = VkStub
                   /\ n = IF rs.token THEN 3 ELSE 2
     /\ rs.pc # "threw"

\* with the credential, the API and the crawler page failed and the desktop
\* page gave the title that the resolution returned
C15_Witness ==
  /\ rs.platform = "vk" /\ rs.token /\ rs.pc = "returned"
  /\ rs.calls = <<"api", "googlebot", "desktop">>
  /\ tryVkApi(rs.got[1]).kind = "null"
  /\ tryGooglebotScraping(rs.got[2]).kind = "null"
  /\ rs.result = tryDesktopScraping(rs.got[3])
  /\ rs.result.title = S_Song

\* C16: every network call a resolution has made carries a timeout of 5 to
\* 10 seconds, and a resolution makes six calls at most.
C16_EveryCallHasTimeout ==
  /\ Len(rs.calls) <= 1 + InvidiousInstances
  /\ \A k \in 1..Len(rs.calls) :
       TimeoutMs(rs.platform, rs.calls[k]) \in 5000..10000

\* the duration of the first answer of `got` that carries a number not under
\* `least`, NoDuration when there is none
DurationWon(got, least) ==
  LET has(i) == got[i].net = "ok" /\ got[i].duration >= least
  IN  IF \E i \in 1..Len(got) : has(i)
      THEN got[CHOOSE i \in 1..Len(got) :
                 has(i) /\ \A j \in 1..(i - 1) : ~has(j)].duration
      ELSE NoDuration

\* a YouTube resolution whose oEmbed strategy succeeded has returned: title,
\* channel and thumbnail are those of the oEmbed result, the duration is the
\* first one of the mirrors' answers that is a number not under `least`, no
\* mirror is asked after that one, and with no such answer from any of the
\* mirrors the result is the oEmbed result with duration null, not the stub
OembedKept(least) ==
  (rs.platform = "youtube" /\ rs.pc = "returned" /\ OembedTry(rs.got[1]).kind = "info") =>
     LET oembedResult == OembedTry(rs.got[1])
         answers == Tail(rs.got)
     IN  /\ rs.result.title = oembedResult.title
         /\ rs.result.channelName = oembedResult.channelName
         /\ rs.result.thumbnailUrl = oembedResult.thumbnailUrl
         /\ rs.result.duration = DurationWon(answers, least)
         /\ rs.calls = <<"oembed">> \o [i \in 1..Len(answers) |-> "invidious"]
         /\ DurationWon(answers, least) # NoDuration =>
              DurationWon(SubSeq(answers, 1, Len(answers) - 1), least) = NoDuration
         /\ DurationWon(answers, least) = NoDuration =>
              /\ Len(answers) = InvidiousInstances
              /\ rs.result = [oembedResult EXCEPT !.duration = NoDuration]
              /\ rs.result # YouTubeStub

\* C17 as stated: the first numeric duration wins
C17_FirstNumericDurationWins == OembedKept(0)

\* C17: when the oEmbed strategy succeeds the returned title, channel and
\* thumbnail are those of the oEmbed result; the mirrors, tried in sequence,
\* set only the duration, the first numeric duration greater than 0 wins, and
\* when no mirror gives one the result is the oEmbed result with duration
\* null, not the stub.
C17_FirstPositiveDurationWins == OembedKept(1)

\* the first mirror answered a duration of 0, the second one 2, and the
\* resolution returned the oEmbed title with duration 2
C17_Witness ==
  /\ rs.platform = "youtube" /\ rs.pc = "returned"
  /\ Len(rs.got) = 3
  /\ OembedTry(rs.got[1]).kind = "info"
  /\ rs.got[2].net = "ok" /\ rs.got[2].duration = 0
  /\ rs.got[3].net = "ok" /\ rs.got[3].duration = 2
  /\ rs.result.title = S_Song
  /\ rs.result.duration = 2

\* the clauses of a title: split at ? | . ! and trimmed
Clauses(title) == TrimAll(SplitOn(title, {"?", "|", ".", "!"}))

\* a finder run has made two rounds at most, the first one with the full
\* title; a second round came after a first one that counted `none` as
\* nothing, and searched for a clause that `retried` allows
TwoRoundsAtMost(none(_), retried(_, _)) ==
  \A r \in ReqIds :
     LET log == finder[r].log
     IN  /\ Len(log) <= 2
         /\ Len(log) >= 1 => log[1].q = finder[r].query
         /\ Len(log) = 2 => none(log[1]) /\ retried(finder[r].query, log[2].q)

ReturnedNone(round) == round.returned = 0
FoundNone(round) == round.found = 0

IsFirstClause(title, q) == q = Clauses(title)[1]

IsFirstLongClause(title, q) ==
  \E k \in 1..Len(Clauses(title)) :
     /\ q = Clauses(title)[k]
     /\ Len(q) > 5
     /\ \A j \in 1..(k - 1) : Len(Clauses(title)[j]) <= 5

\* C18 as stated: the retry searches for the first clause of the title, and
\* only after a first round in which no search returned a candidate
C18_RetryWithFirstClause == TwoRoundsAtMost(ReturnedNone, IsFirstClause)

\* C18: a finder run makes two search rounds at most, the first one with the
\* full title; a second one is made only after a first one that yielded no
\* candidate with an external id from either platform, and searches for the
\* first clause of the title that is longer than 5 characters once trimmed.
C18_AtMostOneRetry == TwoRoundsAtMost(FoundNone, IsFirstLongClause)

\* a run retried after a first round whose only candidate had no id, with a
\* clause that is not the first one of the title, and ended
C18_Witness ==
  \E r \in ReqIds :
     /\ finder[r].pc = "done"
     /\ Len(finder[r].log) = 2
     /\ finder[r].log[1].returned > 0 /\ finder[r].log[1].found = 0
     /\ finder[r].log[2].q # Clauses(finder[r].query)[1]
     /\ finder[r].log[2].q # finder[r].query

\* the search of a round failed: its fetch rejected, or the API answered an error
VkFailed(round) == round.vk \in {"reject", "error"}
RutubeFailed(round) == round.rutube = "reject"

\* the candidates decided on are of `platform`, there are some, and with no
\* delete since those accepted have their rows
PersistedFrom(r, platform) ==
  /\ finder[r].decisions # {}
  /\ \A d \in finder[r].decisions :
       /\ d.alt.platform = platform
       /\ (deletes = 0 /\ d.accepted) => RowsLike(videos, finder[r].userId, d.alt) # {}

\* C19: no failure of a search reaches the catch block of a finder run, and a
\* run ends in no other way than by returning; when one platform's search
\* failed in the last round and the other's handed back candidates, those
\* are scored and the accepted ones persisted; when both searches failed in
\* every round, nothing is scored and the run has created no row.
C19_SearchFailuresSwallowed ==
  \A r \in ReqIds :
     LET f == finder[r]
         last == f.log[Len(f.log)]
     IN  /\ f.pc \in {"none", "searching", "done"}
         /\ ~f.threw
         /\ (f.pc = "done" /\ f.log # <<>>) =>
              /\ (VkFailed(last) /\ ~RutubeFailed(last) /\ last.found > 0) =>
                   PersistedFrom(r, "rutube")
              /\ (RutubeFailed(last) /\ ~VkFailed(last) /\ last.found > 0) =>
                   PersistedFrom(r, "vk")
              /\ (\A k \in 1..Len(f.log) : VkFailed(f.log[k]) /\ RutubeFailed(f.log[k])) =>
                   /\ f.decisions = {} /\ f.skipped = {}
                   /\ \A m \in mirrors : m.root # f.parentId

\* the VK search of a run's last round rejected, the Rutube search handed
\* back candidates, and one of them was accepted and has its row
C19_Witness ==
  \E r \in ReqIds :
     /\ finder[r].pc = "done" /\ finder[r].log # <<>>
     /\ finder[r].log[Len(finder[r].log)].vk = "reject"
     /\ finder[r].log[Len(finder[r].log)].rutube = "ok"
     /\ \E d \in finder[r].decisions :
          /\ d.accepted /\ d.alt.platform = "rutube"
          /\ RowsLike(videos, finder[r].userId, d.alt) # {}
          /\ \E m \in mirrors : m.root = finder[r].parentId

\* ------------------------------------------------------------------------
\* The finder and the intake that starts it (under SpecIntake)
\* ------------------------------------------------------------------------

\* a finder run exists only for a YouTube intake that has saved its row and
\* answered 201 with it; the run knows that row as its root, and with no
\* delete since the row of that link and owner is in the table
StartedAfterRoot ==
  \A r \in ReqIds :
     finder[r].pc # "none" =>
        /\ req[r].platform = "youtube"
        /\ req[r].pc = "done" /\ req[r].status = 201
        /\ finder[r].parentId = req[r].videoId
        /\ finder[r].root.platform = "youtube"
        /\ finder[r].root.external_id = req[r].externalId
        /\ deletes = 0 =>
             /\ req[r].videoId \in DOMAIN videos
             /\ videos[req[r].videoId].platform = "youtube"
             /\ videos[req[r].videoId].external_id = req[r].externalId
             /\ videos[req[r].videoId].user_id = finder[r].userId

\* the step that answers 201 has the row of the answer in the table, ends
\* with no search round of its run made, and adds no row but that one
AnswersBeforeSearch ==
  \A r \in ReqIds :
     (req[r].status # 201 /\ req'[r].status = 201) =>
        /\ req'[r].videoId \in DOMAIN videos'
        /\ finder'[r].log = <<>>
        /\ mirrors' = mirrors
        /\ \A id \in DOMAIN videos' : id \in DOMAIN videos \/ id = req'[r].videoId

\* a step of a finder run leaves every request, answered or not, and the
\* row of its root as they were
FinderLeavesIntake ==
  \A r \in ReqIds :
     (finder[r].pc = "searching" /\ finder'[r] # finder[r]) =>
        /\ req' = req
        /\ finder[r].parentId \in DOMAIN videos =>
             /\ finder[r].parentId \in DOMAIN videos'
             /\ videos'[finder[r].parentId] = videos[finder[r].parentId]

\* C20: the finder is started only for a YouTube intake and only once the
\* root row is saved; the 201 answer is given before any search round of the
\* run has ended, with the root in the table and no mirror of that run yet;
\* and no step of a finder run changes a request's answer or the root row.
C20_FinderAfterRootAndAside ==
  /\ []StartedAfterRoot
  /\ [][AnswersBeforeSearch /\ FinderLeavesIntake]_vars

\* a YouTube intake answered 201, its run has ended and stored a mirror, the
\* root row is as the intake saved it; a Rutube intake answered 201 and has
\* no run
C20_Witness ==
  \E r, q \in ReqIds :
     /\ req[r].platform = "youtube" /\ req[r].status = 201
     /\ finder[r].pc = "done"
     /\ req[r].videoId \in DOMAIN videos
     /\ videos[req[r].videoId] = finder[r].root
     /\ \E m \in mirrors : m.root = req[r].videoId /\ m.id \in DOMAIN videos
     /\ req[q].platform = "rutube" /\ req[q].status = 201
     /\ finder[q].pc = "none"
\* ------------------------------------------------------------------------
\* The frame of DELETE /videos/:id (under Spec)
\* ------------------------------------------------------------------------

\* the rows of the videos table that a step removes
Removed == DOMAIN videos \ DOMAIN videos'

\* findByUserId: the ids of the rows listed for a user
ListedFor(vs, userId) == {i \in DOMAIN vs : vs[i].user_id = userId}

\* the caller of the request just answered owned the row it named
CallerOwned ==
  /\ resp'.tg \in DOMAIN users
  /\ resp'.videoId \in DOMAIN videos
  /\ videos[resp'.videoId].user_id = users[resp'.tg]

\* C23: a DELETE issued by the owner of the row removes exactly that row and
\* no other: the rows naming it as parent stay and stay listed for their
\* owner, and the row it names as parent stays; a DELETE naming a row the
\* caller does not own removes nothing.
C23_DeleteRemovesExactlyOwnRow ==
  [][resp'.op = "delete" =>
       /\ CallerOwned => (resp'.status = 200 /\ Removed = {resp'.videoId})
       /\ ~CallerOwned => (resp'.status # 200 /\ Removed = {} /\ videos' = videos)
       /\ \A c \in DOMAIN videos :
            (c # resp'.videoId) =>
               /\ c \in DOMAIN videos'
               /\ c \in ListedFor(videos', videos[c].user_id)
               /\ videos'[c].title = videos[c].title
               /\ videos'[c].external_id = videos[c].external_id]_vars

\* the first user has just deleted their root: its Rutube mirror is still
\* listed for them and the second user's row is untouched
C23_Witness ==
  /\ resp = [op |-> "delete", tg |-> 101, videoId |-> 1, status |-> 200,
             position |-> NoPos, stored |-> FALSE]
  /\ DOMAIN videos = {2, 3}
  /\ ListedFor(videos, 1) = {2}
  /\ videos[2].parent_id = NoId
  /\ deletes = 1
\* ------------------------------------------------------------------------
\* Saves the caller may not make, and the positions stored (under Spec)
\* ------------------------------------------------------------------------

\* the row named is none of the rows of the user
NotOwned(userId, videoId) ==
  videoId \notin DOMAIN videos \/ videos[videoId].user_id # userId

\* C28: a save naming a video id the authenticated user does not own is
\* answered 200 with a progress object that is no stored row (row id 0),
\* carrying the submitted position rounded down; no Progress row of the
\* user is keyed by that id, and the table is as it was.
C28_SyntheticAnswerForUnowned ==
  [][\A tg \in DOMAIN users, id \in VideoIds, half \in 0..MaxHalf :
       (SaveProgress(tg, id, half) /\ NotOwned(users[tg], id)) =>
          /\ resp'.status = 200
          /\ ~resp'.stored
          /\ 2 * resp'.position \in {half, half - 1}
          /\ <<users[tg], id>> \notin DOMAIN progress'
          /\ progress' = progress]_vars

\* the second user has just saved 1.5 s on the first user's root, which has
\* a stored position of its own
C28_Witness ==
  /\ resp = [op |-> "save", tg |-> 102, videoId |-> 1, status |-> 200,
             position |-> 1, stored |-> FALSE]
  /\ 1 \in DOMAIN videos /\ videos[1].user_id = 1
  /\ <<1, 1>> \in DOMAIN progress
  /\ <<2, 1>> \notin DOMAIN progress

\* the Progress rows of a user whose video resolves to root
RowsOfFamily(userId, root) ==
  {k \in DOMAIN progress : k[1] = userId /\ getCanonicalId(k[2]) = root}

\* every stored position is a whole number of seconds, not negative; a family
\* saved to has exactly one row, holding the last accepted position rounded down
StoredPositionsOk ==
  /\ \A k \in DOMAIN progress : progress[k] \in 0..(MaxHalf \div 2)
  /\ \A k \in SavedFamilies :
        /\ RowsOfFamily(k[1], k[2]) = {k}
        /\ lastSave[k].half >= 0
        /\ progress[k] = lastSave[k].half \div 2

\* a save with a negative position, or one that is not a number, is answered
\* 400 and leaves the table as it was
RejectedSavesWriteNothing ==
  \A tg \in DOMAIN users, id \in VideoIds, half \in {-1, NotANumber} :
     SaveProgress(tg, id, half) => (resp'.status = 400 /\ progress' = progress)

C22_VerdictIsTheSignature ==
  verified.pc = "done" =>
    /\ ~verified.result.threw
    /\ verified.result.valid = (verified.payload.kind \in Matching)
    /\ verified.result.valid =>
         (verified.result.hasUser = (verified.payload.user \in GoodUsers))
\* ------------------------------------------------------------------------
\* Properties of the routes behind their middleware (under SpecAuth)
\* ------------------------------------------------------------------------

\* the headers that carry no signed payload, one whose hash does not verify,
\* or a verified one without a usable user
Unusable == HeaderNames \ {"ann", "bob"}

\* C21: a list or player call (GET videos, PATCH video, DELETE video, GET
\* progress, POST progress) arriving with no signed payload, with one whose
\* signature does not verify, or with a verified one carrying no usable
\* user, is answered 401 and changes no users, videos or progress row; the
\* handler is given no identity in place of the missing one.
C21_UnusablePayloadIsUnauthorized ==
  [][(verified'.pc = "auth" /\ verified'.header \in Unusable) =>
        /\ resp'.status = 401
        /\ resp'.tg = NoTg
        /\ users' = users /\ videos' = videos /\ progress' = progress]_vars

\* a position is stored, and a delete of the root with a correct signature
\* over a user without an id has just been answered 401
C21_Witness ==
  /\ verified = [pc |-> "auth", header |-> "noId"]
  /\ resp.op = "delete" /\ resp.videoId = 1 /\ resp.status = 401
  /\ 1 \in DOMAIN videos
  /\ <<1, 1>> \in DOMAIN progress

\* the rows of the videos table that are a user's
OwnVideos(userId) == [i \in ListedFor(videos, userId) |-> videos[i]]

\* what a read answers over the rows of the user alone
OwnRead(userId, videoId) ==
  LET key == <<userId, CanonicalIdIn(OwnVideos(userId), videoId)>>
  IN  IF key \in DOMAIN progress THEN progress[key] ELSE NoPos

\* C27: no answer to an authenticated user holds or depends on the rows of
\* another user: the list holds the user's own videos and nothing else, and
\* a progress read for any video id answers the position of a Progress row
\* of the user, or null, as it would were the other users' rows not there.
C27_AnswersHoldOwnRowsOnly ==
  (resp.status = 200 /\ resp.tg \in DOMAIN users) =>
     /\ resp.op = "list" =>
          /\ \A r \in resp.rows : r.row.user_id = users[resp.tg]
          /\ {r.id : r \in resp.rows} = DOMAIN OwnVideos(users[resp.tg])
     /\ resp.op = "get" =>
          /\ resp.position = OwnRead(users[resp.tg], resp.videoId)
          /\ resp.stored =>
               \E k \in DOMAIN progress : k[1] = users[resp.tg] /\ progress[k] = resp.position

\* the first user has 1 s stored for their family; the second user has just
\* read the first user's child and got null
C27_Witness ==
  /\ <<1, 1>> \in DOMAIN progress /\ progress[<<1, 1>>] = 1
  /\ {1, 2} \subseteq DOMAIN videos
  /\ videos[2].parent_id = 1 /\ videos[2].user_id = 1
  /\ resp.op = "get" /\ resp.tg = 102 /\ resp.videoId = 2
  /\ resp.status = 200 /\ resp.position = NoPos
\* ------------------------------------------------------------------------
\* Properties of parseVideoUrl (under SpecParse)
\* ------------------------------------------------------------------------

\* C24: every supported shape of the link of a video (YouTube: watch, short
\* link, embed, shorts; Rutube: video, embed; VK: direct, embed with owner
\* and id, the other domain) parses to the platform of the video and to one
\* externalId, the same for every shape; for VK it is the two captured
\* parts joined by "_".
C24_ShapesParseAlike ==
  (parsedUrl.pc = "done" /\ parsedUrl.link \in SupportedLinks) =>
     /\ parsedUrl.result.found
     /\ parsedUrl.result.platform = parsedUrl.link.platform
     /\ parsedUrl.result.externalId = parsedUrl.link.id
     /\ \A other \in SupportedLinks :
          (other.platform = parsedUrl.link.platform /\ other.id = parsedUrl.link.id) =>
             parseVideoUrl(other.text).externalId = parsedUrl.result.externalId

\* the embed link of a VK video with a negative owner has been parsed
C24_Witness ==
  /\ parsedUrl.pc = "done"
  /\ parsedUrl.link.platform = "vk" /\ parsedUrl.link.shape = "ext"
  /\ parsedUrl.result.found
  /\ parsedUrl.result.externalId = <<"-","1","2","3","_","4","5","6">>
\* ------------------------------------------------------------------------
\* Properties of the in-memory caches (under SpecThumbnail and SpecStream)
\* ------------------------------------------------------------------------

\* what the thumbnail cache alone keeps: its ceiling, and no stale entry served
ThumbnailCacheBounded ==
  /\ Len(cache.thumb) <= MAX_CACHE_ENTRIES
  /\ (cache.last.route = "thumbnail" /\ cache.last.hit) => cache.last.left > 0

\* C25: each cache (thumbnail bytes, stream URLs) holds at most its ceiling
\* of entries; an insertion into a full cache has first evicted the entry
\* that stood first; an entry past its expiry time is not served.
C25_CachesAreBounded ==
  /\ Len(cache.thumb) <= MAX_CACHE_ENTRIES
  /\ Len(cache.urls) <= MAX_CACHE_ENTRIES
  /\ cache.last.hit => cache.last.left > 0

\* C26: when the CDN answers 403 or 410 for a cached stream URL, the entry
\* of the video is evicted and the request is made once more with a URL
\* resolved anew: the request ends with two fetches, the second of a new URL.
C26_RetriedWithFreshUrl ==
  (cache.last.route = "stream" /\ cache.last.hit /\ cache.last.evicted # "") =>
     /\ cache.last.fetches = 2
     /\ cache.last.resolves = 1
\* ------------------------------------------------------------------------
\* Properties of the player (under SpecPlayer)
\* ------------------------------------------------------------------------

\* C30: for the opened video, playback and the timers run only once the
\* fetch of the saved progress has succeeded or failed and, when the fetched
\* position is at least 10 seconds, the user has answered the resume
\* prompt; no save is sent before that; a periodic or final save carries a
\* position of at least 10 seconds; a position below that is sent only as
\* the 0 of the user who starts from the beginning.
C30_PlaybackAndSavesWaitForProgress ==
  /\ (player.playbackReady \/ player.timers) => Settled(player)
  /\ player.sent.kind # "none" => player.sent.settled
  /\ player.sent.kind \in {"periodic", "close"} => player.sent.pos >= MIN_RESUME_SECONDS
  /\ (player.sent.kind # "none" /\ player.sent.pos < MIN_RESUME_SECONDS) =>
        /\ player.sent.kind = "restart"
        /\ player.sent.pos = 0

\* a video with 11 saved seconds was resumed, played on and closed, the
\* final position being sent
C30_Witness ==
  /\ player.pc = "closed"
  /\ player.sent = [kind |-> "close", video |-> 1, pos |-> 12, settled |-> TRUE]
====
